---- MODULE Spec2Model ----
(***************************************************************************)
(* The diagram engine of doc-processor: the Mermaid syntax validator       *)
(* (utils/workflowGenerator.js), the diagram parser and the diagram        *)
(* mutators (utils/workflowEditor.js), as used by the workflow editor      *)
(* component, which holds the diagram source and replaces it by the        *)
(* result of every successful edit.                                        *)
(*                                                                         *)
(* A source string is a sequence of one-character strings.  A regular      *)
(* expression of the code is a sequence of items (literals, repeated       *)
(* character classes, assertions, back-references) that one backtracking   *)
(* matcher runs the way the JavaScript engine does: leftmost match, greedy *)
(* or lazy repetition, alternatives in order.                              *)
(***************************************************************************)
EXTENDS Integers, Sequences, FiniteSets, TLC

VARIABLES
  diagramCode,  \* the source the editor holds (its diagramCode prop)
  prevCode,     \* the source the last call was given
  call,         \* the last call: operation, arguments, whether it returned
  error,        \* the editor's error state
  validated,    \* diagramCode is an output of the validator
  ops,          \* number of calls made
  duration,     \* a duration, in hundredths of a minute
  durationText, \* the duration formatted
  durationRead, \* the formatted duration parsed
  workflowMetrics,  \* the page's results.workflowDiagram.metrics
  documentRows,     \* the page's document: the cells of its table rows
  documentMetrics,  \* the metrics of the page's document
  processMetrics,   \* the page's results.processMetrics
  workflowDiagram,  \* the page's results.workflowDiagram.diagram
  regeneration,     \* the regeneration request in flight: the results its handler holds
  documentContent,  \* the document the document editor holds, as the tree it is read as
  prevContent,      \* the document the last edit was given
  edit,             \* the last edit: operation, coordinates, what it returned
  editError,        \* the document editor's error state
  serialized,       \* documentContent is an output of dom.serialize()
  edits             \* number of edits made

editorVars == <<diagramCode, prevCode, call, error, validated, ops>>
timeVars == <<duration, durationText, durationRead>>
pageVars == <<documentRows, workflowMetrics, documentMetrics, processMetrics,
             workflowDiagram, regeneration>>
docVars == <<documentContent, prevContent, edit, editError, serialized, edits>>
vars == <<editorVars, timeVars, pageVars, docVars>>

(***************************************************************************)
(* Characters and character classes                                        *)
(***************************************************************************)
NL == "\n"
QUOTE == "\""

\* [A-Za-z0-9_]
WordChars ==
  {"A","B","C","D","E","F","G","H","I","J","K","L","M","N","O","P","Q","R",
   "S","T","U","V","W","X","Y","Z",
   "a","b","c","d","e","f","g","h","i","j","k","l","m","n","o","p","q","r",
   "s","t","u","v","w","x","y","z",
   "0","1","2","3","4","5","6","7","8","9","_"}

\* \s
SpaceChars == {" ", "\n", "\t"}

LowerOf ==
  "A" :> "a" @@ "B" :> "b" @@ "C" :> "c" @@ "D" :> "d" @@ "E" :> "e" @@
  "F" :> "f" @@ "G" :> "g" @@ "H" :> "h" @@ "I" :> "i" @@ "J" :> "j" @@
  "K" :> "k" @@ "L" :> "l" @@ "M" :> "m" @@ "N" :> "n" @@ "O" :> "o" @@
  "P" :> "p" @@ "Q" :> "q" @@ "R" :> "r" @@ "S" :> "s" @@ "T" :> "t" @@
  "U" :> "u" @@ "V" :> "v" @@ "W" :> "w" @@ "X" :> "x" @@ "Y" :> "y" @@
  "Z" :> "z"

ToLower(c) == IF c \in DOMAIN LowerOf THEN LowerOf[c] ELSE c

\* String.prototype.toLowerCase
ToLowerCase(s) == [k \in 1..Len(s) |-> ToLower(s[k])]

(***************************************************************************)
(* Strings                                                                 *)
(***************************************************************************)
Least(N) == CHOOSE n \in N : \A m \in N : m >= n
Greatest(N) == CHOOSE n \in N : \A m \in N : m <= n

\* least k in i..n with P(k) (0 if none)
FirstOr(k, n) == IF k > n THEN 0 ELSE k
FirstFrom(i, n, P(_)) ==
  IF i > n THEN 0
  ELSE FirstOr(CHOOSE k \in i..(n + 1) : (k > n \/ P(k)) /\ \A m \in i..(k - 1) : ~P(m), n)

\* greatest k in 1..i with P(k) (0 if none)
LastUpTo(i, P(_)) ==
  IF i < 1 THEN 0
  ELSE i - (CHOOSE d \in 0..i : (d = i \/ P(i - d)) /\ \A m \in 0..(d - 1) : ~P(i - m))

At(s, i) == IF i >= 1 /\ i <= Len(s) THEN s[i] ELSE ""

\* the literal p occurs in s at index i
StartsAt(s, i, p) ==
  /\ i >= 1
  /\ i + Len(p) - 1 <= Len(s)
  /\ \A k \in 1..Len(p) : s[i + k - 1] = p[k]

\* the literal p occurs in s at index i, ignoring case (the i flag)
StartsAtNoCase(s, i, p) ==
  /\ i >= 1
  /\ i + Len(p) - 1 <= Len(s)
  /\ \A k \in 1..Len(p) : ToLower(s[i + k - 1]) = ToLower(p[k])

\* String.prototype.startsWith
StartsWith(s, p) == StartsAt(s, 1, p)

\* first index >= i at which the literal p occurs (0 if none)
IndexOf(s, p, i) == FirstFrom(i, Len(s) - Len(p) + 1, LAMBDA x : StartsAt(s, x, p))

\* String.prototype.includes
Includes(s, p) == \E x \in 1..(Len(s) - Len(p) + 1) : StartsAt(s, x, p)

Between(s, a, b) == IF a = 0 THEN <<>> ELSE SubSeq(s, a, b)

\* String.prototype.trim
Trim(s) ==
  Between(s, FirstFrom(1, Len(s), LAMBDA x : s[x] \notin SpaceChars),
             LastUpTo(Len(s), LAMBDA x : s[x] \notin SpaceChars))

\* s with the n characters at index i replaced by r (s itself when i = 0)
SpliceAt(s, i, n, r) ==
  IF i = 0 THEN s ELSE SubSeq(s, 1, i - 1) \o r \o SubSeq(s, i + n, Len(s))

\* String.prototype.replace(p, r) with a string pattern: the first occurrence
ReplaceFirst(s, p, r) == SpliceAt(s, IndexOf(s, p, 1), Len(p), r)

\* String.prototype.split('\n'): the text from index i on, the next '\n' at j
RECURSIVE SplitFrom(_, _, _, _)
SplitFrom(s, i, j, acc) ==
  IF j = 0 THEN Append(acc, SubSeq(s, i, Len(s)))
  ELSE SplitFrom(s, j + 1, FirstFrom(j + 1, Len(s), LAMBDA x : s[x] = NL),
                 Append(acc, SubSeq(s, i, j - 1)))

Split(s) == SplitFrom(s, 1, FirstFrom(1, Len(s), LAMBDA x : s[x] = NL), <<>>)

\* Array.prototype.join('\n')
RECURSIVE JoinFrom(_, _, _)
JoinFrom(ls, i, acc) ==
  IF i > Len(ls) THEN acc
  ELSE JoinFrom(ls, i + 1, IF i = 1 THEN ls[1] ELSE acc \o <<NL>> \o ls[i])

Join(ls) == JoinFrom(ls, 1, <<>>)

\* Array.prototype.splice(index, 0, item), index counted from 0
Splice(lines, index, item) ==
  IF index >= Len(lines) THEN Append(lines, item)
  ELSE SubSeq(lines, 1, index) \o <<item>> \o SubSeq(lines, index + 1, Len(lines))

\* \b between index i-1 and index i
WordBoundary(s, i) == (At(s, i - 1) \in WordChars) # (At(s, i) \in WordChars)

(***************************************************************************)
(* Regular expressions                                                     *)
(***************************************************************************)
\* A pattern is a sequence of items. An item of kind k is a literal (v: the
\* alternatives; c: the characters one of them can start with, "" standing
\* for an empty alternative), a repeated character class (c: the class, in:
\* whether a character has to be in it or outside it, min and max: the
\* counts, lazy: the fewest first), an anchor, a lookahead or a back
\* reference.
Item(k, v, c, in, min, max, lazy) ==
  [k |-> k, v |-> v, c |-> c, in |-> in, min |-> min, max |-> max, lazy |-> lazy]

\* the characters one of the literals vs can start with ("": the empty literal)
Firsts(vs) == {IF vs[a] = <<>> THEN "" ELSE vs[a][1] : a \in 1..Len(vs)}

\* a literal; one of several literals (a|b); the same under the i flag
Lit(v) == Item("lit", <<v>>, Firsts(<<v>>), TRUE, 1, 1, FALSE)
OneOf(vs) == Item("lit", vs, Firsts(vs), TRUE, 1, 1, FALSE)
LitI(v) == Item("liti", <<v>>, Firsts(<<ToLowerCase(v)>>), TRUE, 1, 1, FALSE)
OneOfI(vs) == Item("liti", vs, Firsts([a \in 1..Len(vs) |-> ToLowerCase(vs[a])]), TRUE, 1, 1, FALSE)
\* [c]*  [c]+  [c]?  [c]  and the same for [^c]; max -1: no upper limit
Star(c) == Item("rep", <<>>, c, TRUE, 0, -1, FALSE)
Plus(c) == Item("rep", <<>>, c, TRUE, 1, -1, FALSE)
Opt(c) == Item("rep", <<>>, c, TRUE, 0, 1, FALSE)
One(c) == Item("rep", <<>>, c, TRUE, 1, 1, FALSE)
StarNot(c) == Item("rep", <<>>, c, FALSE, 0, -1, FALSE)
PlusNot(c) == Item("rep", <<>>, c, FALSE, 1, -1, FALSE)
OneNot(c) == Item("rep", <<>>, c, FALSE, 1, 1, FALSE)
\* [^c]*?
LazyStarNot(c) == Item("rep", <<>>, c, FALSE, 0, -1, TRUE)
\* ^ and $ under the m flag, ^ and $ without it, \b
Bol == Item("bol", <<>>, {}, TRUE, 0, 0, FALSE)
Eol == Item("eol", <<>>, {}, TRUE, 0, 0, FALSE)
Bos == Item("bos", <<>>, {}, TRUE, 0, 0, FALSE)
Eos == Item("eos", <<>>, {}, TRUE, 0, 0, FALSE)
WordB == Item("wb", <<>>, {}, TRUE, 0, 0, FALSE)
\* (?!pat)
NotAhead(pat) == Item("not", pat, {}, TRUE, 0, 0, FALSE)
\* a back-reference to the text matched by the items from..to
Ref(from, to) == Item("ref", <<>>, {}, TRUE, from, to, FALSE)

\* the zero-width assertion of kind k holds at index i
Holds(s, i, k) ==
  CASE k = "bol" -> i = 1 \/ At(s, i - 1) = NL
    [] k = "eol" -> i = Len(s) + 1 \/ At(s, i) = NL
    [] k = "bos" -> i = 1
    [] k = "eos" -> i = Len(s) + 1
    [] k = "wb" -> WordBoundary(s, i)

\* the first index >= i whose character ends a run of the class (0: the run
\* reaches the end of s)
RunStop(s, i, it) == FirstFrom(i, Len(s), LAMBDA x : (s[x] \in it.c) # it.in)

\* how many characters from index i a repetition can take at most
RunLen(s, i, it, stop) ==
  IF it.max >= 0 /\ (IF stop = 0 THEN Len(s) + 1 ELSE stop) - i > it.max THEN it.max
  ELSE (IF stop = 0 THEN Len(s) + 1 ELSE stop) - i

\* acc = <<start, end of item 1, ..., end of item p-1>> (exclusive ends): the
\* boundaries of a match of the whole pattern that extends acc, the one the
\* backtracking engine finds first; <<>> if there is none
RECURSIVE MatchFrom(_, _, _)
RECURSIVE MatchLits(_, _, _, _, _, _)
TryLit(s, pat, acc, it, i, a, r) ==
  IF r # <<>> THEN r ELSE MatchLits(s, pat, acc, it, i, a + 1)

MatchLits(s, pat, acc, it, i, a) ==
  IF a > Len(it.v) THEN <<>>
  ELSE TryLit(s, pat, acc, it, i, a,
         IF (IF it.k = "liti" THEN StartsAtNoCase(s, i, it.v[a]) ELSE StartsAt(s, i, it.v[a]))
         THEN MatchFrom(s, pat, Append(acc, i + Len(it.v[a]))) ELSE <<>>)

\* R: the matches of the rest of the pattern, one for each length of the run
\* that has one; the engine finds the longest run first (the shortest if lazy)
MatchRep(p, lazy, R) ==
  IF R = {} THEN <<>>
  ELSE IF lazy THEN CHOOSE r \in R : \A q \in R : q[p] >= r[p]
  ELSE CHOOSE r \in R : \A q \in R : q[p] <= r[p]

MatchItem(s, pat, acc, it, i) ==
  CASE it.k \in {"lit", "liti"} -> MatchLits(s, pat, acc, it, i, 1)
    [] it.k = "rep" ->
         MatchRep(Len(acc) + 1, it.lazy,
           {MatchFrom(s, pat, Append(acc, i + n)) :
              n \in it.min..RunLen(s, i, it, RunStop(s, i, it))} \ {<<>>})
    [] it.k = "ref" ->
         IF StartsAt(s, i, SubSeq(s, acc[it.min], acc[it.max + 1] - 1))
         THEN MatchFrom(s, pat, Append(acc, i + acc[it.max + 1] - acc[it.min]))
         ELSE <<>>
    [] it.k = "not" ->
         IF MatchFrom(s, it.v, <<i>>) = <<>>
         THEN MatchFrom(s, pat, Append(acc, i)) ELSE <<>>
    [] OTHER ->
         IF Holds(s, i, it.k) THEN MatchFrom(s, pat, Append(acc, i)) ELSE <<>>

MatchFrom(s, pat, acc) ==
  IF Len(acc) > Len(pat) THEN acc
  ELSE MatchItem(s, pat, acc, pat[Len(acc)], acc[Len(acc)])

\* the boundaries of the match of pat that starts at index i (<<>>: none)
Match(s, i, pat) == MatchFrom(s, pat, <<i>>)

\* the leftmost of the matches M
Leftmost(M) == IF M = {} THEN <<>> ELSE CHOOSE m \in M : \A q \in M : q[1] >= m[1]

\* a match of a pattern that opens with the item it can only start at index x
\* if CanStart: the engine's first-character test
CanStart(s, x, it) ==
  CASE it.k = "lit" -> "" \in it.c \/ At(s, x) \in it.c
    [] it.k = "liti" -> "" \in it.c \/ ToLower(At(s, x)) \in it.c
    [] it.k = "rep" -> it.min = 0 \/ (x <= Len(s) /\ (s[x] \in it.c) = it.in)
    [] OTHER -> Holds(s, x, it.k)

\* the matches of pat, one for every index from i on that has one
Matches(s, pat, i) ==
  {Match(s, x, pat) : x \in {y \in i..(Len(s) + 1) : CanStart(s, y, pat[1])}} \ {<<>>}

\* RegExp.prototype.exec from index i: the boundaries of the leftmost match
Exec(s, pat, i) == Leftmost(Matches(s, pat, i))

\* RegExp.prototype.test, String.prototype.match without the g flag
Test(s, pat) == Matches(s, pat, 1) # {}

\* the text of the group made of items from..to in the match m
Group(s, m, from, to) == SubSeq(s, m[from], m[to + 1] - 1)

\* the index after the match m
EndOf(m) == m[Len(m)]

\* a replacement string: literal parts and group references $n
Text(t) == [t |-> t, from |-> 0, to |-> 0]
Grp(from, to) == [t |-> <<>>, from |-> from, to |-> to]

RECURSIVE Expand(_, _, _, _)
Expand(s, m, tmpl, p) ==
  IF p > Len(tmpl) THEN <<>>
  ELSE (IF tmpl[p].from = 0 THEN tmpl[p].t ELSE Group(s, m, tmpl[p].from, tmpl[p].to))
       \o Expand(s, m, tmpl, p + 1)

\* String.prototype.replace(regex, tmpl) without the g flag
ReplaceMatch(s, m, tmpl) ==
  IF m = <<>> THEN s
  ELSE SubSeq(s, 1, m[1] - 1) \o Expand(s, m, tmpl, 1) \o SubSeq(s, EndOf(m), Len(s))

ReplaceRegex(s, pat, tmpl) == ReplaceMatch(s, Exec(s, pat, 1), tmpl)

\* String.prototype.replace(regex, tmpl) with the g flag: M holds the match at
\* every index that has one; the matches replaced are the leftmost one and
\* then, each time, the leftmost one that starts at or after the end of the
\* one before (no pattern of the code matches the empty string)
RECURSIVE ReplaceFrom(_, _, _, _, _, _)
ReplaceFrom(s, tmpl, M, i, m, out) ==
  IF m = <<>> THEN out \o SubSeq(s, i, Len(s))
  ELSE ReplaceFrom(s, tmpl, M, EndOf(m), Leftmost({q \in M : q[1] >= EndOf(m)}),
         out \o SubSeq(s, i, m[1] - 1) \o Expand(s, m, tmpl, 1))

ReplaceIn(s, tmpl, M) == ReplaceFrom(s, tmpl, M, 1, Leftmost(M), <<>>)

ReplaceAll(s, pat, tmpl) == ReplaceIn(s, tmpl, Matches(s, pat, 1))

\* a chain of .replace(regex, tmpl) calls with the g flag, from rule k on
RECURSIVE ReplaceChain(_, _, _)
ReplaceChain(s, rules, k) ==
  IF k > Len(rules) THEN s
  ELSE ReplaceChain(ReplaceAll(s, rules[k].pat, rules[k].tmpl), rules, k + 1)

Rule(pat, tmpl) == [pat |-> pat, tmpl |-> tmpl]

(***************************************************************************)
(* utils/workflowGenerator.js: validateAndFixMermaidSyntax                 *)
(***************************************************************************)
GraphTD == <<"g","r","a","p","h"," ","T","D">>
Arrow == <<"-","-",">">>
KwGraph == <<"g","r","a","p","h">>
KwEnd == <<"e","n","d">>
KwEndNode == <<"e","n","d","N","o","d","e">>
KwEndProcess == <<"e","n","d","P","r","o","c","e","s","s">>
KwSubgraph == <<"s","u","b","g","r","a","p","h">>

\* 'graph TD\nA[No diagram available]'
NoDiagram ==
  GraphTD \o <<NL,"A","[","N","o"," ","d","i","a","g","r","a","m"," ",
               "a","v","a","i","l","a","b","l","e","]">>

\* '\nA["Process Start"] --> B["Process End"]'
DefaultNodes ==
  <<NL,"A","[",QUOTE,"P","r","o","c","e","s","s"," ","S","t","a","r","t",QUOTE,"]",
    " ","-","-",">"," ",
    "B","[",QUOTE,"P","r","o","c","e","s","s"," ","E","n","d",QUOTE,"]">>

\* /^graph\s+(TD|LR|RL|BT)/i
GraphHeader ==
  <<Bos, LitI(KwGraph), Plus(SpaceChars),
    OneOfI(<< <<"T","D">>, <<"L","R">>, <<"R","L">>, <<"B","T">> >>)>>

\* the .replace chain "Fix critical syntax issues"
CriticalFixes ==
  << \* /-+>/g -> '-->'
     Rule(<<Plus({"-"}), Lit(<<">">>)>>, <<Text(Arrow)>>),
     \* /--[^>]/g -> '-->'
     Rule(<<Lit(<<"-","-">>), OneNot({">"})>>, <<Text(Arrow)>>),
     \* /<br\s*\/?>/gi -> ' '
     Rule(<<LitI(<<"<","b","r">>), Star(SpaceChars), Opt({"/"}), Lit(<<">">>)>>,
          <<Text(<<" ">>)>>),
     \* /<[^>]+>/g -> ''
     Rule(<<Lit(<<"<">>), PlusNot({">"}), Lit(<<">">>)>>, <<>>),
     \* /'/g -> '"'
     Rule(<<Lit(<<"'">>)>>, <<Text(<<QUOTE>>)>>),
     \* /[""]/g -> '"'
     Rule(<<One({QUOTE})>>, <<Text(<<QUOTE>>)>>),
     \* /,\s*\]/g -> ']'
     Rule(<<Lit(<<",">>), Star(SpaceChars), Lit(<<"]">>)>>, <<Text(<<"]">>)>>),
     \* /\[([^"\]]+\s+[^"\]]+)\]/g -> '["$1"]'
     Rule(<<Lit(<<"[">>), PlusNot({QUOTE, "]"}), Plus(SpaceChars),
            PlusNot({QUOTE, "]"}), Lit(<<"]">>)>>,
          <<Text(<<"[", QUOTE>>), Grp(2, 4), Text(<<QUOTE, "]">>)>>),
     \* /([A-Za-z0-9_]+)\s*\[\s*"([^"]+)"\s*\]/g -> '$1["$2"]'
     Rule(<<Plus(WordChars), Star(SpaceChars), Lit(<<"[">>), Star(SpaceChars),
            Lit(<<QUOTE>>), PlusNot({QUOTE}), Lit(<<QUOTE>>), Star(SpaceChars),
            Lit(<<"]">>)>>,
          <<Grp(1, 1), Text(<<"[", QUOTE>>), Grp(6, 6), Text(<<QUOTE, "]">>)>>),
     \* /^(\s*[A-Za-z0-9_]+\["[^"]+"\])\s*\1/gm -> '$1'
     Rule(<<Bol, Star(SpaceChars), Plus(WordChars), Lit(<<"[", QUOTE>>),
            PlusNot({QUOTE}), Lit(<<QUOTE, "]">>), Star(SpaceChars), Ref(2, 6)>>,
          <<Grp(2, 6)>>) >>

\* /^([A-Za-z0-9_]+)(?:\[|\(|\{)/
NodeStart == <<Bos, Plus(WordChars), One({"[", "(", "{"})>>

\* line.match(NodeStart): the ids it yields (none or one)
NodeStartIds(line, m) == IF m = <<>> THEN {} ELSE {Group(line, m, 2, 2)}

\* the inner while loop of the first pass: the first j >= i whose line trims to
\* 'end' (lines.length, here Len(lines) + 1, if there is none)
SkipSection(lines, i, j) == IF j = 0 THEN Len(lines) + 1 ELSE j

\* "First pass to collect all defined nodes in the main flow"
RECURSIVE DefinedNodes(_, _, _)
DefinedNodes(lines, i, definedNodes) ==
  IF i > Len(lines) THEN definedNodes
  ELSE IF StartsWith(Trim(lines[i]), KwSubgraph)
  THEN DefinedNodes(lines,
         SkipSection(lines, i,
           FirstFrom(i, Len(lines), LAMBDA j : Trim(lines[j]) = KwEnd)) + 1,
         definedNodes)
  ELSE DefinedNodes(lines, i + 1,
         definedNodes \cup NodeStartIds(Trim(lines[i]), Match(Trim(lines[i]), 1, NodeStart)))

Fixing(fixedLines, subgraphDepth, inSubgraph) ==
  [fixedLines |-> fixedLines, subgraphDepth |-> subgraphDepth, inSubgraph |-> inSubgraph]

\* the keyword alone
IsEndKeyword(line) == line = KwEnd

\* "Detect potential subgraph end": line === 'end' || line === 'endNode'
IsSubgraphEnd(line) == line = KwEnd \/ line = KwEndNode

\* one iteration of the second pass, on the raw line and its trimmed form
FixLine(raw, line, definedNodes, st, ids) ==
  IF StartsWith(line, KwSubgraph)
  THEN Fixing(Append(st.fixedLines, raw), st.subgraphDepth + 1, TRUE)
  ELSE IF IsSubgraphEnd(line)
  THEN IF st.inSubgraph /\ st.subgraphDepth > 0
       THEN Fixing(Append(st.fixedLines, ReplaceFirst(raw, KwEndNode, KwEnd)),
                   st.subgraphDepth - 1,
                   IF st.subgraphDepth - 1 = 0 THEN FALSE ELSE st.inSubgraph)
       ELSE Fixing(Append(st.fixedLines, raw), st.subgraphDepth, st.inSubgraph)
  ELSE IF st.inSubgraph /\ ids # {} /\ ids \subseteq definedNodes
  THEN Fixing(st.fixedLines \o <<CHOOSE id \in ids : TRUE>>, st.subgraphDepth, st.inSubgraph)
  ELSE Fixing(Append(st.fixedLines, raw), st.subgraphDepth, st.inSubgraph)

\* "Second pass to fix subgraph issues"
RECURSIVE FixSubgraphs(_, _, _, _)
FixSubgraphs(lines, definedNodes, i, st) ==
  IF i > Len(lines) THEN st
  ELSE FixSubgraphs(lines, definedNodes, i + 1,
         FixLine(lines[i], Trim(lines[i]), definedNodes, st,
                 NodeStartIds(Trim(lines[i]), Match(Trim(lines[i]), 1, NodeStart))))

\* /\[[^\]]+\]/
AnyBracket == <<Lit(<<"[">>), PlusNot({"]"}), Lit(<<"]">>)>>

\* "Ensure the diagram has at least one node"
EnsureNode(fixed) == IF Test(fixed, AnyBracket) THEN fixed ELSE fixed \o DefaultNodes

\* decision nodes, condition labels, and the two endNode passes
FinalFixes ==
  << \* /([A-Za-z0-9_]+)\s*\{\s*"([^"]+)"\s*\}/g -> '$1{"$2"}'
     Rule(<<Plus(WordChars), Star(SpaceChars), Lit(<<"{">>), Star(SpaceChars),
            Lit(<<QUOTE>>), PlusNot({QUOTE}), Lit(<<QUOTE>>), Star(SpaceChars),
            Lit(<<"}">>)>>,
          <<Grp(1, 1), Text(<<"{", QUOTE>>), Grp(6, 6), Text(<<QUOTE, "}">>)>>),
     \* /-->\|([^|]*[^|"])\|/g -> '-->|"$1"|'
     Rule(<<Lit(<<"-","-",">","|">>), StarNot({"|"}), OneNot({"|", QUOTE}), Lit(<<"|">>)>>,
          <<Text(<<"-","-",">","|",QUOTE>>), Grp(2, 3), Text(<<QUOTE, "|">>)>>),
     \* /^(\s*)endNode\s*$/gm -> '$1end'
     Rule(<<Bol, Star(SpaceChars), Lit(KwEndNode), Star(SpaceChars), Eol>>,
          <<Grp(2, 2), Text(KwEnd)>>),
     \* /\bendNode\b(?!\s*$)/g -> 'endProcess'
     Rule(<<WordB, Lit(KwEndNode), WordB, NotAhead(<<Star(SpaceChars), Eos>>)>>,
          <<Text(KwEndProcess)>>) >>

\* one closer fewer than the groups left open
CloseAllButOne(fixed, subgraphDepth) ==
  IF subgraphDepth <= 1 THEN fixed ELSE fixed \o <<NL>> \o KwEnd

\* "Close any unclosed subgraphs"
RECURSIVE CloseSubgraphs(_, _)
CloseSubgraphs(fixed, subgraphDepth) ==
  IF subgraphDepth <= 0 THEN fixed
  ELSE CloseSubgraphs(fixed \o <<NL>> \o KwEnd, subgraphDepth - 1)

\* the validator from the split into lines on
FixStructure(st) ==
  CloseSubgraphs(ReplaceChain(EnsureNode(Join(st.fixedLines)), FinalFixes, 1),
                 st.subgraphDepth)

FixLines(lines) ==
  FixStructure(FixSubgraphs(lines, DefinedNodes(lines, 1, {}), 1, Fixing(<<>>, 0, FALSE)))

\* "Make sure graph TD is on its own line at the beginning"
EnsureHeader(fixed) ==
  IF Match(fixed, 1, GraphHeader) = <<>> THEN GraphTD \o <<NL>> \o fixed ELSE fixed

validateAndFixMermaidSyntax(code) ==
  IF code = <<>> THEN NoDiagram
  ELSE FixLines(Split(ReplaceChain(EnsureHeader(Trim(code)), CriticalFixes, 1)))

(***************************************************************************)
(* utils/workflowEditor.js: parseMermaidDiagram                            *)
(*                                                                         *)
(* Lines are numbered from 1 (the code numbers them from 0); NoLine stands *)
(* for a node record without a line field, None for null or undefined.     *)
(***************************************************************************)
None == <<>>
NoLine == 0

KwSubgraphSp == KwSubgraph \o <<" ">>
NodeTypes == <<"process", "decision", "startEnd">>

\* \s*<open>\s*"([^"]+)"\s*<close>
Shape(open, close) ==
  <<Star(SpaceChars), Lit(open), Star(SpaceChars), Lit(<<QUOTE>>), PlusNot({QUOTE}),
    Lit(<<QUOTE>>), Star(SpaceChars), Lit(close)>>

ShapeOf ==
  [process |-> Shape(<<"[">>, <<"]">>),
   decision |-> Shape(<<"{">>, <<"}">>),
   startEnd |-> Shape(<<"(", "[">>, <<"]", ")">>)]

\* /^([A-Za-z0-9_]+)\s*\[\s*"([^"]+)"\s*\]/ and its decision and start/end forms:
\* the id is item 2, the label item 7
DefinitionOf == [t \in DOMAIN ShapeOf |-> <<Bos, Plus(WordChars)>> \o ShapeOf[t]]

\* new RegExp(`${nodeId}\\s*\\[\\s*"([^"]+)"\\s*\\]`) and its decision and
\* start/end forms: the label is item 6
ShapeOfId(nodeId, type) == <<Lit(nodeId)>> \o ShapeOf[type]

\* /([A-Za-z0-9_]+)\s*\(\[\s*"([^"]+)"\s*\]\)/g: the id is item 1, the label item 6
AnyStartEnd == <<Plus(WordChars)>> \o ShapeOf.startEnd

\* /subgraph\s+"?([^"]+)"?/
SubgraphTitlePattern ==
  <<Lit(KwSubgraph), Plus(SpaceChars), Opt({QUOTE}), PlusNot({QUOTE}), Opt({QUOTE})>>

\* /\(([^)]+)\)$/
TimePattern == <<Lit(<<"(">>), PlusNot({")"}), Lit(<<")">>), Eos>>

\* /([A-Za-z0-9_]+)\s*-->\|"([^"]+)"\|\s*([A-Za-z0-9_]+)/
LabeledConnection ==
  <<Plus(WordChars), Star(SpaceChars), Lit(<<"-","-",">","|",QUOTE>>), PlusNot({QUOTE}),
    Lit(<<QUOTE, "|">>), Star(SpaceChars), Plus(WordChars)>>

\* /([A-Za-z0-9_]+)\s*-->\s*([A-Za-z0-9_]+)/
BasicConnection ==
  <<Plus(WordChars), Star(SpaceChars), Lit(Arrow), Star(SpaceChars), Plus(WordChars)>>

\* /%%\s*([A-Za-z0-9_]+)\s*:\s*(.*)/
NodeDescription ==
  <<Lit(<<"%","%">>), Star(SpaceChars), Plus(WordChars), Star(SpaceChars), Lit(<<":">>),
    Star(SpaceChars), StarNot({NL})>>

\* titleMatch ? titleMatch[1] : ''
TitleOf(line, m) == IF m = <<>> THEN <<>> ELSE Group(line, m, 4, 4)

\* the inner loop of the first pass: the line of the matching 'end', counting
\* nested openers (0: none)
RECURSIVE FindSubgraphEnd(_, _, _)
NestedLine(lines, j, nestingLevel, nestedLine) ==
  IF StartsWith(nestedLine, KwSubgraphSp)
  THEN FindSubgraphEnd(lines, j + 1, nestingLevel + 1)
  ELSE IF nestedLine # KwEnd THEN FindSubgraphEnd(lines, j + 1, nestingLevel)
  ELSE IF nestingLevel - 1 = 0 THEN j
  ELSE FindSubgraphEnd(lines, j + 1, nestingLevel - 1)

FindSubgraphEnd(lines, j, nestingLevel) ==
  IF j > Len(lines) THEN 0 ELSE NestedLine(lines, j, nestingLevel, Trim(lines[j]))

\* "First pass: collect subgraph boundaries"; the scan resumes after the end
\* line of a subgraph it has recorded
RECURSIVE CollectSubgraphs(_, _, _)
SubgraphAt(lines, i, subgraphs, line, endLine) ==
  IF endLine > i
  THEN CollectSubgraphs(lines, endLine + 1,
         Append(subgraphs,
           [title |-> TitleOf(line, Exec(line, SubgraphTitlePattern, 1)),
            startLine |-> i, endLine |-> endLine, nodes |-> <<>>]))
  ELSE CollectSubgraphs(lines, i + 1, subgraphs)

CollectSubgraphs(lines, i, subgraphs) ==
  IF i > Len(lines) THEN subgraphs
  ELSE IF StartsWith(Trim(lines[i]), KwSubgraphSp)
  THEN SubgraphAt(lines, i, subgraphs, Trim(lines[i]), FindSubgraphEnd(lines, i + 1, 1))
  ELSE CollectSubgraphs(lines, i + 1, subgraphs)

Node(type, label, fullLabel, timeEstimate, line, subgraphs, isImplicit) ==
  [type |-> type, label |-> label, fullLabel |-> fullLabel,
   timeEstimate |-> timeEstimate, line |-> line, subgraphs |-> subgraphs,
   isImplicit |-> isImplicit]

\* the record of a node written with nodeLabel; timeMatch is
\* nodeLabel.match(TimePattern), which start/end nodes do not look at
NodeOf(type, nodeLabel, line, subgraphs, timeMatch) ==
  IF type = "startEnd" \/ timeMatch = <<>>
  THEN Node(type, nodeLabel, nodeLabel, None, line, subgraphs, FALSE)
  ELSE Node(type, Trim(SubSeq(nodeLabel, 1, timeMatch[1] - 1)), nodeLabel,
            Group(nodeLabel, timeMatch, 2, 2), line, subgraphs, FALSE)

\* sg.nodes.push(nodeId) for every subgraph whose span holds line i
AddToSubgraphs(subgraphs, i, nodeId) ==
  [k \in 1..Len(subgraphs) |->
     IF /\ i > subgraphs[k].startLine
        /\ i < subgraphs[k].endLine
        /\ \A x \in 1..Len(subgraphs[k].nodes) : subgraphs[k].nodes[x] # nodeId
     THEN [subgraphs[k] EXCEPT !.nodes = Append(@, nodeId)]
     ELSE subgraphs[k]]

\* currentSubgraphs.map(sg => sg.title)
RECURSIVE TitlesAt(_, _, _)
TitlesAt(subgraphs, i, k) ==
  IF k > Len(subgraphs) THEN <<>>
  ELSE (IF i > subgraphs[k].startLine /\ i < subgraphs[k].endLine
        THEN <<subgraphs[k].title>> ELSE <<>>) \o TitlesAt(subgraphs, i, k + 1)

\* nodes[nodeId] = rec
SetNode(nodes, nodeId, rec) ==
  [x \in DOMAIN nodes \cup {nodeId} |-> IF x = nodeId THEN rec ELSE nodes[x]]

Parsed(nodes, connections, subgraphs) ==
  [nodes |-> nodes, connections |-> connections, subgraphs |-> subgraphs]

Connection(from, to, label, line) ==
  [from |-> from, to |-> to, label |-> label, line |-> line]

\* the connection branches of the second pass
BasicConnectionAt(line, i, w, m) ==
  IF m = <<>> THEN w
  ELSE Parsed(w.nodes,
         Append(w.connections,
           Connection(Group(line, m, 1, 1), Group(line, m, 5, 5), <<>>, i)),
         w.subgraphs)

ConnectionAt(line, i, w, m) ==
  IF m = <<>> THEN BasicConnectionAt(line, i, w, Exec(line, BasicConnection, 1))
  ELSE Parsed(w.nodes,
         Append(w.connections,
           Connection(Group(line, m, 1, 1), Group(line, m, 7, 7), Group(line, m, 4, 4), i)),
         w.subgraphs)

\* the node definition branches of the second pass, tried in the order of
\* NodeTypes, from the k-th on
RECURSIVE DefinitionAt(_, _, _, _)
DefinedAt(line, i, w, k, m) ==
  IF m = <<>> THEN DefinitionAt(line, i, w, k + 1)
  ELSE Parsed(SetNode(w.nodes, Group(line, m, 2, 2),
                NodeOf(NodeTypes[k], Group(line, m, 7, 7), i, TitlesAt(w.subgraphs, i, 1),
                       Exec(Group(line, m, 7, 7), TimePattern, 1))),
              w.connections,
              AddToSubgraphs(w.subgraphs, i, Group(line, m, 2, 2)))

DefinitionAt(line, i, w, k) ==
  IF k > Len(NodeTypes) THEN ConnectionAt(line, i, w, Exec(line, LabeledConnection, 1))
  ELSE DefinedAt(line, i, w, k, Match(line, 1, DefinitionOf[NodeTypes[k]]))

\* empty lines, comments, directives, subgraph and end lines
IsSkippedLine(line) ==
  \/ line = <<>>
  \/ StartsWith(line, <<"%","%">>)
  \/ StartsWith(line, KwGraph \o <<" ">>)
  \/ StartsWith(line, KwSubgraphSp)
  \/ line = KwEnd

\* "Second pass: Process nodes and connections"
RECURSIVE ScanLines(_, _, _)
ScanLines(lines, i, w) ==
  IF i > Len(lines) THEN w
  ELSE ScanLines(lines, i + 1,
         IF IsSkippedLine(Trim(lines[i])) THEN w
         ELSE DefinitionAt(Trim(lines[i]), i, w, 1))

\* the node made up for a connection endpoint without a definition line: its
\* shape is looked for in the whole text, as a process, then a start/end, then
\* a decision node; only a process node gets a time estimate
RecoveredNode(code, nodeId, process, startEnd, decision) ==
  IF process # <<>>
  THEN NodeOf("process", Group(code, process, 6, 6), NoLine, <<>>,
              Exec(Group(code, process, 6, 6), TimePattern, 1))
  ELSE IF startEnd # <<>>
  THEN NodeOf("startEnd", Group(code, startEnd, 6, 6), NoLine, <<>>, <<>>)
  ELSE IF decision # <<>>
  THEN NodeOf("decision", Group(code, decision, 6, 6), NoLine, <<>>, <<>>)
  ELSE Node("process", nodeId, nodeId, None, NoLine, <<>>, TRUE)

ImplicitNode(code, nodes, nodeId) ==
  IF nodeId \in DOMAIN nodes THEN nodes
  ELSE SetNode(nodes, nodeId,
         RecoveredNode(code, nodeId,
           Exec(code, ShapeOfId(nodeId, "process"), 1),
           Exec(code, ShapeOfId(nodeId, "startEnd"), 1),
           Exec(code, ShapeOfId(nodeId, "decision"), 1)))

\* "Third pass: Handle implicit nodes from connections"
RECURSIVE ImplicitNodes(_, _, _, _)
ImplicitNodes(code, connections, k, nodes) ==
  IF k > Len(connections) THEN nodes
  ELSE ImplicitNodes(code, connections, k + 1,
         ImplicitNode(code, ImplicitNode(code, nodes, connections[k].from),
                      connections[k].to))

Described(node, description) ==
  Node(node.type, description, description, node.timeEstimate, node.line,
       node.subgraphs, FALSE)

\* one comment line of the fourth pass; m is line.match(NodeDescription)
DescriptionAt(line, nodes, m) ==
  IF m = <<>> THEN nodes
  ELSE IF Group(line, m, 3, 3) \notin DOMAIN nodes THEN nodes
  ELSE IF \/ nodes[Group(line, m, 3, 3)].isImplicit
          \/ nodes[Group(line, m, 3, 3)].label = Group(line, m, 3, 3)
  THEN SetNode(nodes, Group(line, m, 3, 3),
         Described(nodes[Group(line, m, 3, 3)], Trim(Group(line, m, 7, 7))))
  ELSE nodes

CommentAt(line, nodes) ==
  IF StartsWith(line, <<"%","%">>) /\ Includes(line, <<":">>)
  THEN DescriptionAt(line, nodes, Exec(line, NodeDescription, 1))
  ELSE nodes

\* "Fourth pass: Check for node label texts in comments"
RECURSIVE NodeDescriptions(_, _, _)
NodeDescriptions(lines, i, nodes) ==
  IF i > Len(lines) THEN nodes
  ELSE NodeDescriptions(lines, i + 1, CommentAt(Trim(lines[i]), nodes))

\* one connection of the fifth pass; m is the match of the start/end shape of
\* the target in the line of the connection
EndNodeAt(line, conn, nodes, m) ==
  IF m = <<>> THEN nodes
  ELSE SetNode(nodes, conn.to,
         Node("startEnd", Group(line, m, 6, 6), Group(line, m, 6, 6), None, conn.line,
              <<>>, FALSE))

\* "Fifth pass: Search for end nodes in connection labels"
RECURSIVE EndNodesInConnections(_, _, _, _)
EndNodesInConnections(lines, connections, k, nodes) ==
  IF k > Len(connections) THEN nodes
  ELSE EndNodesInConnections(lines, connections, k + 1,
         EndNodeAt(lines[connections[k].line], connections[k], nodes,
           Exec(lines[connections[k].line], ShapeOfId(connections[k].to, "startEnd"), 1)))

FoundInFullScan(code, nodes, m, nodeId) ==
  IF nodeId \notin DOMAIN nodes \/ nodes[nodeId].isImplicit
  THEN SetNode(nodes, nodeId,
         Node("startEnd", Group(code, m, 6, 6), Group(code, m, 6, 6), None, NoLine,
              <<>>, FALSE))
  ELSE nodes

\* the exec loop of the "final full diagram scan for startEnd nodes": M holds
\* the match of AnyStartEnd at every index that has one
RECURSIVE FullScan(_, _, _, _)
FullScan(code, M, m, nodes) ==
  IF m = <<>> THEN nodes
  ELSE FullScan(code, M, Leftmost({q \in M : q[1] >= EndOf(m)}),
         FoundInFullScan(code, nodes, m, Group(code, m, 1, 1)))

StartEndNodes(code, M, nodes) == FullScan(code, M, Leftmost(M), nodes)

\* `${subgraphTitle} Node ${nodeId}`
InferredLabel(subgraphTitle, nodeId) ==
  subgraphTitle \o <<" ","N","o","d","e"," ">> \o nodeId

\* "Sixth pass: Try to infer labels from subgraph titles for single-letter
\* nodes"
InferLabels(nodes) ==
  [id \in DOMAIN nodes |->
     IF Len(id) = 1 /\ nodes[id].label = id /\ Len(nodes[id].subgraphs) > 0
     THEN Node(nodes[id].type, InferredLabel(nodes[id].subgraphs[1], id),
               InferredLabel(nodes[id].subgraphs[1], id), nodes[id].timeEstimate,
               nodes[id].line, nodes[id].subgraphs, nodes[id].isImplicit)
     ELSE nodes[id]]

EmptyNodes == [x \in {} |-> 0]

\* the third to the sixth pass, on the result w of the second
ParseNodes(code, lines, w) ==
  Parsed(
    InferLabels(
      StartEndNodes(code, Matches(code, AnyStartEnd, 1),
        EndNodesInConnections(lines, w.connections, 1,
          NodeDescriptions(lines, 1,
            ImplicitNodes(code, w.connections, 1, w.nodes))))),
    w.connections, w.subgraphs)

ParseLines(code, lines) ==
  ParseNodes(code, lines,
    ScanLines(lines, 1, Parsed(EmptyNodes, <<>>, CollectSubgraphs(lines, 1, <<>>))))

parseMermaidDiagram(code) ==
  IF code = <<>> THEN Parsed(EmptyNodes, <<>>, <<>>) ELSE ParseLines(code, Split(code))

(***************************************************************************)
(* utils/workflowEditor.js: the diagram mutators                           *)
(*                                                                         *)
(* A call either returns a source or throws: [ok, code, error].            *)
(***************************************************************************)
Returned(code) == [ok |-> TRUE, code |-> code, error |-> ""]
Thrown(e) == [ok |-> FALSE, code |-> <<>>, error |-> e]

\* return validateAndFixMermaidSyntax(lines.join('\n'))
Validated(lines) == Returned(validateAndFixMermaidSyntax(Join(lines)))

\* lines[i] = line
SetLine(lines, i, line) == [lines EXCEPT ![i] = line]

\* `${nodeId}["${text}"]`, `${nodeId}{"${text}"}`, `${nodeId}(["${text}"])`
Definition(nodeId, type, text) ==
  CASE type = "decision" -> nodeId \o <<"{", QUOTE>> \o text \o <<QUOTE, "}">>
    [] type = "startEnd" -> nodeId \o <<"(", "[", QUOTE>> \o text \o <<QUOTE, "]", ")">>
    [] OTHER -> nodeId \o <<"[", QUOTE>> \o text \o <<QUOTE, "]">>

\* ` (${timeEstimate})`
TimeSuffix(t) == <<" ", "(">> \o t \o <<")">>

\* /^[A-Za-z0-9_]+\s*\[/, /^[A-Za-z0-9_]+\s*\{/ or /^[A-Za-z0-9_]+\s*\(\[/
DefinitionStart ==
  <<Bos, Plus(WordChars), Star(SpaceChars), OneOf(<< <<"[">>, <<"{">>, <<"(", "[">> >>)>>

\* "lines that define nodes but aren't connections"
LooksLikeDefinition(line) == Match(line, 1, DefinitionStart) # <<>> /\ ~Includes(line, Arrow)

\* insertPosition + 1 of updateNodeTimeEstimate: after the last line that looks
\* like a definition, after the first line if there is none
InsertAfter(k) == IF k = 0 THEN 1 ELSE k
DefinitionInsertPosition(lines) ==
  InsertAfter(LastUpTo(Len(lines), LAMBDA x : LooksLikeDefinition(Trim(lines[x]))))

\* node.label || nodeId
LabelOrId(node, nodeId) == IF node.label = <<>> THEN nodeId ELSE node.label

\* the definition written for a node that has no definition line: only a process
\* node gets the time estimate
ExplicitDefinition(node, nodeId, newTimeEstimate) ==
  IF node.type = "process"
  THEN Definition(nodeId, "process", LabelOrId(node, nodeId) \o TimeSuffix(newTimeEstimate))
  ELSE Definition(nodeId, node.type, LabelOrId(node, nodeId))

\* new RegExp(`(${nodeId}\\s*\\[\\s*"${node.label}\\s*)\\([^)]+\\)(\\s*"\\s*\\])`)
TimeEstimatePattern(nodeId, label) ==
  <<Lit(nodeId), Star(SpaceChars), Lit(<<"[">>), Star(SpaceChars), Lit(<<QUOTE>>),
    Lit(label), Star(SpaceChars), Lit(<<"(">>), PlusNot({")"}), Lit(<<")">>),
    Star(SpaceChars), Lit(<<QUOTE>>), Star(SpaceChars), Lit(<<"]">>)>>

\* the branch for a time estimate that is not part of fullLabel: m is the match
\* of TimeEstimatePattern, match that of the node pattern
TimePortion(currentLine, node, nodeId, newTimeEstimate, match, m) ==
  IF m # <<>>
  THEN ReplaceMatch(currentLine, m,
         <<Grp(1, 7), Text(<<"(">> \o newTimeEstimate \o <<")">>), Grp(11, 14)>>)
  ELSE ReplaceMatch(currentLine, match,
         <<Text(Definition(nodeId, "process", node.label \o TimeSuffix(newTimeEstimate)))>>)

\* the new text of the definition line of an explicit process node
WithTimeEstimate(currentLine, node, nodeId, newTimeEstimate, match) ==
  IF node.timeEstimate = None
  THEN ReplaceFirst(currentLine, Definition(nodeId, "process", node.label),
         Definition(nodeId, "process", node.label \o TimeSuffix(newTimeEstimate)))
  ELSE IF node.fullLabel # <<>> /\ Includes(node.fullLabel, <<"(">>)
  THEN ReplaceFirst(currentLine, Definition(nodeId, "process", node.fullLabel),
         Definition(nodeId, "process", node.label \o TimeSuffix(newTimeEstimate)))
  ELSE TimePortion(currentLine, node, nodeId, newTimeEstimate, match,
         Exec(currentLine, TimeEstimatePattern(nodeId, node.label), 1))

\* "Regular update for explicit nodes"; match is currentLine.match(nodePattern)
ProcessTimeUpdate(lines, node, nodeId, newTimeEstimate, match) ==
  IF match = <<>> THEN Thrown("Could not parse node syntax")
  ELSE Validated(SetLine(lines, node.line,
         WithTimeEstimate(lines[node.line], node, nodeId, newTimeEstimate, match)))

TimeUpdate(lines, node, nodeId, newTimeEstimate) ==
  IF node.line = NoLine \/ node.isImplicit
  THEN Validated(Splice(lines, DefinitionInsertPosition(lines),
                        ExplicitDefinition(node, nodeId, newTimeEstimate)))
  ELSE IF node.type = "process"
  THEN ProcessTimeUpdate(lines, node, nodeId, newTimeEstimate,
         Exec(lines[node.line], ShapeOfId(nodeId, "process"), 1))
  ELSE Validated(lines)

TimeUpdateIn(lines, nodes, nodeId, newTimeEstimate) ==
  IF nodeId \notin DOMAIN nodes THEN Thrown("Node not found in diagram")
  ELSE TimeUpdate(lines, nodes[nodeId], nodeId, newTimeEstimate)

updateNodeTimeEstimate(code, nodeId, newTimeEstimate) ==
  TimeUpdateIn(Split(code), parseMermaidDiagram(code).nodes, nodeId, newTimeEstimate)

\* "Preserve time estimate if it exists": only the process branch writes it
KeptTimeEstimate(node) ==
  IF node.type = "process" /\ node.timeEstimate # None
  THEN TimeSuffix(node.timeEstimate) ELSE <<>>

\* the declaration rewritten at the end of the source instead of in place
LabelUpdateMoved(lines, node, nodeId, newLabel) ==
  IF node.line = NoLine THEN Thrown("TypeError")
  ELSE Validated(SubSeq(lines, 1, node.line - 1) \o
         SubSeq(lines, node.line + 1, Len(lines)) \o
         << ReplaceFirst(lines[node.line], Definition(nodeId, node.type, node.fullLabel),
              Definition(nodeId, node.type, newLabel \o KeptTimeEstimate(node))) >>)

\* lines[node.line] of a node without a line is undefined, and its .replace
\* throws a TypeError
LabelUpdate(lines, node, nodeId, newLabel) ==
  IF node.line = NoLine THEN Thrown("TypeError")
  ELSE Validated(SetLine(lines, node.line,
         ReplaceFirst(lines[node.line], Definition(nodeId, node.type, node.fullLabel),
           Definition(nodeId, node.type, newLabel \o KeptTimeEstimate(node)))))

LabelUpdateIn(lines, nodes, nodeId, newLabel) ==
  IF nodeId \notin DOMAIN nodes THEN Thrown("Node not found in diagram")
  ELSE LabelUpdate(lines, nodes[nodeId], nodeId, newLabel)

updateNodeLabel(code, nodeId, newLabel) ==
  LabelUpdateIn(Split(code), parseMermaidDiagram(code).nodes, nodeId, newLabel)

\* `${from} -->|"${label}"| ${to}` and `${from} --> ${to}`
LabeledEdge(from, label, to) ==
  from \o <<" ","-","-",">","|",QUOTE>> \o label \o <<QUOTE,"|"," ">> \o to
PlainEdge(from, to) == from \o <<" ","-","-",">"," ">> \o to

\* connections.find(c => c.from === fromNodeId && c.to === toNodeId), as an
\* index (0: undefined)
FindConnection(connections, fromNodeId, toNodeId) ==
  FirstFrom(1, Len(connections),
    LAMBDA k : connections[k].from = fromNodeId /\ connections[k].to = toNodeId)

ConnectionUpdate(lines, connection, fromNodeId, toNodeId, newLabel) ==
  Validated(SetLine(lines, connection.line,
    ReplaceFirst(lines[connection.line],
      IF connection.label # <<>> THEN LabeledEdge(fromNodeId, connection.label, toNodeId)
      ELSE PlainEdge(fromNodeId, toNodeId),
      LabeledEdge(fromNodeId, newLabel, toNodeId))))

ConnectionUpdateIn(lines, connections, k, fromNodeId, toNodeId, newLabel) ==
  IF k = 0 THEN Thrown("Connection not found")
  ELSE ConnectionUpdate(lines, connections[k], fromNodeId, toNodeId, newLabel)

ConnectionUpdateOf(lines, connections, fromNodeId, toNodeId, newLabel) ==
  ConnectionUpdateIn(lines, connections, FindConnection(connections, fromNodeId, toNodeId),
                     fromNodeId, toNodeId, newLabel)

updateConnectionLabel(code, fromNodeId, toNodeId, newLabel) ==
  ConnectionUpdateOf(Split(code), parseMermaidDiagram(code).connections,
                     fromNodeId, toNodeId, newLabel)

\* String(n) for the numbers a generated id can hold
Digits == <<"0","1","2","3","4","5","6","7","8","9">>
NumberToString(n) ==
  IF n < 10 THEN <<Digits[n + 1]>>
  ELSE <<Digits[((n \div 10) % 10) + 1], Digits[(n % 10) + 1]>>

reservedKeywords ==
  { KwEnd, KwGraph, KwSubgraph, <<"s","t","y","l","e">>, <<"c","l","a","s","s">>,
    <<"c","l","a","s","s","D","e","f">> }

\* nodeDetails.id || `step${Object.keys(nodes).length + 1}`
IdOrStep(nodeDetails, nodes) ==
  IF nodeDetails.id # <<>> THEN nodeDetails.id
  ELSE <<"s","t","e","p">> \o NumberToString(Cardinality(DOMAIN nodes) + 1)

\* "Prevent using reserved keywords as node IDs"
SafeId(nodeId) ==
  IF ToLowerCase(nodeId) \in reservedKeywords THEN nodeId \o <<"N","o","d","e">>
  ELSE nodeId

\* the definition addNode writes: the time estimate goes to a process node only
NodeDefinition(nodeId, nodeDetails) ==
  IF nodeDetails.type \in {"decision", "startEnd"}
  THEN Definition(nodeId, nodeDetails.type, nodeDetails.label)
  ELSE Definition(nodeId, "process",
         nodeDetails.label \o (IF nodeDetails.timeEstimate # <<>>
                               THEN TimeSuffix(nodeDetails.timeEstimate) ELSE <<>>))

\* insertPosition of addNode, counted from 0: the greatest line of a node, 1
\* if no node has a greater one
AddInsertPosition(nodes) ==
  Greatest({1} \cup {nodes[id].line - 1 : id \in DOMAIN nodes})

\* `${from} -->${label ? `|"${label}"| ` : ' '}${to}`
NewEdge(from, label, to) ==
  IF label # <<>> THEN LabeledEdge(from, label, to) ELSE PlainEdge(from, to)

\* lines.splice(connectionInsertLine, 0, connection) for connectFrom, then for
\* connectTo one line further
ConnectTo(lines, nodeDetails, nodeId, at) ==
  IF nodeDetails.connectTo = <<>> THEN lines
  ELSE Splice(lines, at, NewEdge(nodeId, nodeDetails.connectionLabel, nodeDetails.connectTo))

ConnectFrom(lines, nodeDetails, nodeId, at) ==
  IF nodeDetails.connectFrom = <<>> THEN ConnectTo(lines, nodeDetails, nodeId, at)
  ELSE ConnectTo(
         Splice(lines, at, NewEdge(nodeDetails.connectFrom, nodeDetails.connectionLabel, nodeId)),
         nodeDetails, nodeId, at + 1)

AddAt(lines, nodeDetails, nodeId, insertPosition) ==
  Validated(ConnectFrom(Splice(lines, insertPosition + 1, NodeDefinition(nodeId, nodeDetails)),
                        nodeDetails, nodeId, insertPosition + 2))

\* the node added whether or not its id is taken
AddAnyway(lines, nodes, nodeDetails, nodeId) ==
  AddAt(lines, nodeDetails, nodeId, AddInsertPosition(nodes))

\* "Check for ID collision"
AddAs(lines, nodes, nodeDetails, nodeId) ==
  IF nodeId \in DOMAIN nodes THEN Thrown("Node already exists")
  ELSE AddAt(lines, nodeDetails, nodeId, AddInsertPosition(nodes))

AddIn(lines, nodes, nodeDetails) ==
  AddAs(lines, nodes, nodeDetails, SafeId(IdOrStep(nodeDetails, nodes)))

addNode(code, nodeDetails) ==
  AddIn(Split(code), parseMermaidDiagram(code).nodes, nodeDetails)

\* lines.filter((_, i) => !linesToRemove.has(i)), from line i on
RECURSIVE FilterLines(_, _, _)
FilterLines(lines, linesToRemove, i) ==
  IF i > Len(lines) THEN <<>>
  ELSE (IF i \in linesToRemove THEN <<>> ELSE <<lines[i]>>)
       \o FilterLines(lines, linesToRemove, i + 1)

\* the line of the node (a node without a line marks none) and the lines of
\* the connections from or to it
LinesToRemove(parsed, nodeId) ==
  ({parsed.nodes[nodeId].line} \ {NoLine})
    \cup {parsed.connections[k].line :
            k \in {x \in 1..Len(parsed.connections) :
                     \/ parsed.connections[x].from = nodeId
                     \/ parsed.connections[x].to = nodeId}}

\* /\bend\b(?!\s*$)/g -> 'endNode', when the node removed is "end"
EndWords == <<Rule(<<WordB, Lit(KwEnd), WordB, NotAhead(<<Star(SpaceChars), Eos>>)>>,
                   <<Text(KwEndNode)>>)>>

RenameEndWords(updatedDiagram, nodeId) ==
  IF nodeId = KwEnd THEN ReplaceChain(updatedDiagram, EndWords, 1) ELSE updatedDiagram

\* "diagram must have at least 2 nodes"
MinNodes == 2

NodeRemoval(lines, parsed, nodeId) ==
  IF nodeId \notin DOMAIN parsed.nodes THEN Thrown("Node not found")
  ELSE IF Cardinality(DOMAIN parsed.nodes) <= MinNodes THEN Thrown("Cannot remove node")
  ELSE Returned(validateAndFixMermaidSyntax(
         RenameEndWords(Join(FilterLines(lines, LinesToRemove(parsed, nodeId), 1)), nodeId)))

removeNode(code, nodeId) == NodeRemoval(Split(code), parseMermaidDiagram(code), nodeId)

\* new RegExp(`^\\s*${from}\\s*-->\\s*${to}\\s*$`),
\* new RegExp(`^\\s*${from}\\s*-->\\|.*?\\|\\s*${to}\\s*$`) and
\* new RegExp(`^\\s*${from}\\s*--.*?-->\\s*${to}\\s*$`)
ConnectionRegexes(fromNodeId, toNodeId) ==
  << <<Bos, Star(SpaceChars), Lit(fromNodeId), Star(SpaceChars), Lit(Arrow),
       Star(SpaceChars), Lit(toNodeId), Star(SpaceChars), Eos>>,
     <<Bos, Star(SpaceChars), Lit(fromNodeId), Star(SpaceChars), Lit(<<"-","-",">","|">>),
       LazyStarNot({NL}), Lit(<<"|">>), Star(SpaceChars), Lit(toNodeId),
       Star(SpaceChars), Eos>>,
     <<Bos, Star(SpaceChars), Lit(fromNodeId), Star(SpaceChars), Lit(<<"-","-">>),
       LazyStarNot({NL}), Lit(Arrow), Star(SpaceChars), Lit(toNodeId),
       Star(SpaceChars), Eos>> >>

\* the lines that none of the regexes matches
RECURSIVE KeptLines(_, _, _)
KeptLines(lines, regexes, i) ==
  IF i > Len(lines) THEN <<>>
  ELSE (IF \E r \in 1..Len(regexes) : Match(lines[i], 1, regexes[r]) # <<>>
        THEN <<>> ELSE <<lines[i]>>)
       \o KeptLines(lines, regexes, i + 1)

\* a connection that is not found is only logged
removeConnection(code, fromNodeId, toNodeId) ==
  IF code = <<>> THEN Thrown("No diagram code provided")
  ELSE IF fromNodeId = <<>> \/ toNodeId = <<>> THEN Thrown("Both node IDs must be provided")
  ELSE Validated(KeptLines(Split(code), ConnectionRegexes(fromNodeId, toNodeId), 1))

\* /[A-Za-z0-9_]+\s*-->/
ConnectionStart == <<Plus(WordChars), Star(SpaceChars), Lit(Arrow)>>

\* /[A-Za-z0-9_]+\s*\[/, /[A-Za-z0-9_]+\s*\{/ or /[A-Za-z0-9_]+\s*\(\[/
DefinitionInside ==
  <<Plus(WordChars), Star(SpaceChars), OneOf(<< <<"[">>, <<"{">>, <<"(", "[">> >>)>>

\* insertIndex of addConnection, the lines read from the last one up: after the
\* last line with a connection (c); without one, after the topmost line with a
\* definition (d); lines.length - 1 if there is neither
InsertIndex(lines, c, d) == IF c # 0 THEN c ELSE IF d # 0 THEN d ELSE Len(lines) - 1

ConnectionInsertIndex(lines) ==
  InsertIndex(lines,
    LastUpTo(Len(lines), LAMBDA x : Test(Trim(lines[x]), ConnectionStart)),
    FirstFrom(1, Len(lines), LAMBDA x : Test(Trim(lines[x]), DefinitionInside)))

\* connectionLabel.trim().replace(/"/g, '\\"')
EscapeQuotes == <<Rule(<<Lit(<<QUOTE>>)>>, <<Text(<<"\\", QUOTE>>)>>)>>
SanitizeLabel(connectionLabel) == ReplaceChain(Trim(connectionLabel), EscapeQuotes, 1)

ConnectionString(fromNodeId, toNodeId, connectionLabel) ==
  IF Trim(connectionLabel) # <<>>
  THEN LabeledEdge(fromNodeId, SanitizeLabel(connectionLabel), toNodeId)
  ELSE PlainEdge(fromNodeId, toNodeId)

ConnectionAdded(lines, nodes, fromNodeId, toNodeId, connectionLabel) ==
  IF fromNodeId \notin DOMAIN nodes THEN Thrown("Source node does not exist")
  ELSE IF toNodeId \notin DOMAIN nodes THEN Thrown("Target node does not exist")
  ELSE Validated(Splice(lines, ConnectionInsertIndex(lines),
                        ConnectionString(fromNodeId, toNodeId, connectionLabel)))

addConnection(code, fromNodeId, toNodeId, connectionLabel) ==
  IF code = <<>> THEN Thrown("No diagram code provided")
  ELSE IF fromNodeId = <<>> \/ toNodeId = <<>> THEN Thrown("Both node IDs must be provided")
  ELSE ConnectionAdded(Split(code), parseMermaidDiagram(code).nodes,
                       fromNodeId, toNodeId, connectionLabel)

(***************************************************************************)
(* components/WorkflowEditor.jsx: the editor session                       *)
(***************************************************************************)
MaxOps == 2

IdA == <<"A">>
IdB == <<"B">>
IdC == <<"C">>
Tight(from, to) == from \o Arrow \o to
Subgraph(title) == KwSubgraphSp \o title
Process(nodeId, text) == Definition(nodeId, "process", text)
Decision(nodeId, text) == Definition(nodeId, "decision", text)
StartEnd(nodeId, text) == Definition(nodeId, "startEnd", text)
Source(lines) == Join(<<GraphTD>> \o lines)
Step(n) == <<"s","t","e","p">> \o NumberToString(n)

\* the sources an editor session starts from, as the generator hands them over
Sources ==
  { <<>>,
    Tight(IdA, IdB),
    Source(<< Process(IdA, <<"x">>), Process(IdB, <<"y"," ","(","5","m",")">>),
              Decision(IdC, <<"q"," ","(","2","h",")">>),
              PlainEdge(IdA, IdB), LabeledEdge(IdB, <<"l">>, IdC) >>),
    Source(<< Tight(IdA, IdB), IdB \o <<"-","-",">","|",QUOTE,"l",QUOTE,"|">> \o IdC >>),
    Source(<< Subgraph(<<"S">>), Process(IdA, <<"x">>), Process(IdB, <<"y">>), KwEnd,
              PlainEdge(IdA, IdB), PlainEdge(IdB, IdC) >>),
    Source(<< Subgraph(<<"S">>),
              Process(IdA, <<"x">>) \o <<" ">> \o Arrow \o <<" ">> \o KwEndNode >>),
    Source(<< Process(IdA, <<"x">>), KwEnd >>),
    Source(<< Process(IdC, <<"z">>), PlainEdge(IdA, IdB), PlainEdge(IdA, IdC) >>),
    Source(<< Subgraph(<<"S">>), Process(IdA, <<"x">>), KwEnd,
              PlainEdge(IdA, KwEnd), PlainEdge(KwEnd, IdB), PlainEdge(IdB, IdC) >>),
    Source(<< Process(IdA, <<"x">>), Process(IdB, <<"y">>), Process(IdC, <<"z">>),
              Process(IdA, <<"w">>), PlainEdge(IdB, IdC) >>),
    Source(<< <<"A","[","x"," ","y","]">>, <<"A"," ","-",">"," ","B">>,
              Process(IdC, <<"z">>) >>),
    Source(<< Process(IdA, <<"x">>) \o <<" ">> \o Arrow \o <<" ">> \o StartEnd(IdB, <<"s">>),
              PlainEdge(IdB, IdC) >>),
    Source(<< Process(IdA, <<"x">>), PlainEdge(IdA, Process(IdB, <<"y">>)),
              PlainEdge(IdB, IdC) >>),
    Source(<< Process(Step(2), <<"x">>), Process(Step(3), <<"y">>),
              PlainEdge(Step(2), Step(3)) >>),
    Source(<< Subgraph(<<"O">>), Subgraph(<<"I">>), Process(IdA, <<"x">>), KwEnd,
              Process(IdB, <<"y">>), KwEnd, PlainEdge(IdA, IdB) >>) }

\* the arguments the handlers are called with
TimeIds == { IdB, IdC }
LabelIds == { IdB, IdC }
RemoveIds == { IdA, IdC, KwEnd }
Pairs == { <<IdA, IdB>>, <<IdB, IdC>> }
NewLabel == <<"L">>
NewTime == <<"9","d">>
NewConnections == { <<IdA, IdB, <<>> >>, <<IdB, IdC, <<"n">> >>, <<IdA, KwEnd, <<>> >> }

NodeDetail(id, type, timeEstimate, connectFrom, connectTo, connectionLabel) ==
  [id |-> id, label |-> NewLabel, type |-> type, timeEstimate |-> timeEstimate,
   connectFrom |-> connectFrom, connectTo |-> connectTo,
   connectionLabel |-> connectionLabel]

NodeDetails ==
  { NodeDetail(<<>>, "process", NewTime, IdA, IdB, <<"n">>),
    NodeDetail(KwEnd, "decision", <<>>, <<>>, <<>>, <<>>),
    NodeDetail(IdA, "process", <<>>, <<>>, <<>>, <<>>),
    NodeDetail(<<"N">>, "startEnd", <<>>, IdA, <<>>, <<>>) }

\* the id the "Add Node" button fills the form with: "the next available
\* letter", then N1..N100, and nothing if all of them are taken
alphabet ==
  <<"A","B","C","D","E","F","G","H","I","J","K","L","M",
    "N","O","P","Q","R","S","T","U","V","W","X","Y","Z">>
MaxN == 100
\* `N${i}`; 0 stands for no i found
NumberedId(i) ==
  IF i = 0 THEN <<>>
  ELSE <<"N">> \o (IF i = MaxN THEN <<"1","0","0">> ELSE NumberToString(i))
setupNewRow(existingIds) ==
  IF \E k \in 1..Len(alphabet) : <<alphabet[k]>> \notin existingIds
  THEN <<alphabet[FirstFrom(1, Len(alphabet), LAMBDA k : <<alphabet[k]>> \notin existingIds)]>>
  ELSE NumberedId(FirstFrom(1, MaxN, LAMBDA i : NumberedId(i) \notin existingIds))

\* the form submitted with the id it was filled with
NewRowDetails(nodes) ==
  { NodeDetail(setupNewRow(DOMAIN nodes), "process", <<>>, <<>>, <<>>, <<>>) }

Call(op, nodeId, from, to, arg) ==
  [op |-> op, nodeId |-> nodeId, from |-> from, to |-> to, arg |-> arg, ok |-> TRUE]
NoCall == Call("none", <<>>, <<>>, <<>>, <<>>)

Init ==
  /\ diagramCode \in Sources
  /\ prevCode = <<>>
  /\ call = NoCall
  /\ error = ""
  /\ validated = FALSE
  /\ ops = 0
  /\ duration = 0 /\ durationText = None /\ durationRead = None
  /\ documentRows = <<>> /\ workflowMetrics = None /\ documentMetrics = None /\ processMetrics = None
  /\ workflowDiagram = <<>> /\ regeneration = <<>>
  /\ documentContent = <<>> /\ prevContent = <<>> /\ edit = <<>> /\ editError = <<>> /\ serialized = FALSE /\ edits = 0

\* try { onUpdate(mutator(diagramCode, ...)) } catch (err) { setError(...) };
\* the editor's effect on a changed diagramCode clears the error
Handle(r, c) ==
  /\ ops < MaxOps
  /\ ops' = ops + 1
  /\ prevCode' = diagramCode
  /\ call' = [c EXCEPT !.ok = r.ok]
  /\ IF r.ok
     THEN /\ diagramCode' = r.code
          /\ validated' = TRUE
          /\ error' = IF r.code # diagramCode THEN "" ELSE error
     ELSE /\ error' = r.error
          /\ UNCHANGED <<diagramCode, validated>>
  /\ UNCHANGED <<timeVars, pageVars, docVars>>

\* the held source is validated once more, as it is before it is regenerated
Validate ==
  Handle(Returned(validateAndFixMermaidSyntax(diagramCode)),
         Call("validate", <<>>, <<>>, <<>>, <<>>))

\* the handler looks the node up itself before it calls the mutator
TimeEstimateUpdate(code, nodes, nodeId, newTimeEstimate) ==
  IF nodeId \notin DOMAIN nodes THEN Thrown("Node not found")
  ELSE updateNodeTimeEstimate(code, nodeId, newTimeEstimate)

handleTimeEstimateUpdate ==
  \E nodeId \in TimeIds :
    Handle(TimeEstimateUpdate(diagramCode, parseMermaidDiagram(diagramCode).nodes,
                              nodeId, NewTime),
           Call("updateNodeTimeEstimate", nodeId, <<>>, <<>>, NewTime))

handleLabelUpdate ==
  \E nodeId \in LabelIds :
    Handle(updateNodeLabel(diagramCode, nodeId, NewLabel),
           Call("updateNodeLabel", nodeId, <<>>, <<>>, NewLabel))

handleConnectionUpdate ==
  \E p \in Pairs :
    Handle(updateConnectionLabel(diagramCode, p[1], p[2], NewLabel),
           Call("updateConnectionLabel", <<>>, p[1], p[2], NewLabel))

handleRemoveConnection ==
  \E p \in Pairs :
    Handle(removeConnection(diagramCode, p[1], p[2]),
           Call("removeConnection", <<>>, p[1], p[2], <<>>))

handleAddConnection ==
  \E c \in NewConnections :
    Handle(addConnection(diagramCode, c[1], c[2], c[3]),
           Call("addConnection", <<>>, c[1], c[2], c[3]))

handleAddNode ==
  \E d \in NodeDetails \cup NewRowDetails(parseMermaidDiagram(diagramCode).nodes) :
    Handle(addNode(diagramCode, d), Call("addNode", d.id, <<>>, <<>>, d))

handleRemoveNode ==
  \E nodeId \in RemoveIds :
    Handle(removeNode(diagramCode, nodeId), Call("removeNode", nodeId, <<>>, <<>>, <<>>))

Next ==
  \/ Validate
  \/ handleTimeEstimateUpdate
  \/ handleLabelUpdate
  \/ handleConnectionUpdate
  \/ handleRemoveConnection
  \/ handleAddConnection
  \/ handleAddNode
  \/ handleRemoveNode

Spec == Init /\ [][Next]_vars


(***************************************************************************)
(* Process metrics (utils/metricsProcessor.js): durations                  *)
(*                                                                         *)
(* A duration is a number of minutes that need not be whole ("1.5 hours",  *)
(* "0.5 min").  The model counts a duration in hundredths of a minute,     *)
(* which holds every value the parser yields for numbers written with at   *)
(* most two decimals.                                                      *)
(***************************************************************************)
Unit == 100
Minutes(n) == n * Unit

\* the parser's null
null == -1

DigitChars == {Digits[k] : k \in 1..Len(Digits)}
DigitValue(c) == (CHOOSE k \in 1..Len(Digits) : Digits[k] = c) - 1

\* parseInt of a run of digits
RECURSIVE parseInt(_)
parseInt(s) ==
  IF s = <<>> THEN 0
  ELSE parseInt(SubSeq(s, 1, Len(s) - 1)) * 10 + DigitValue(s[Len(s)])

\* String(n), `${n}`
RECURSIVE DecimalString(_)
DecimalString(n) ==
  IF n < 10 THEN <<Digits[n + 1]>>
  ELSE DecimalString(n \div 10) \o <<Digits[(n % 10) + 1]>>

\* parseFloat of digits '.' digits, in hundredths
parseFloat(whole, fraction) ==
  parseInt(whole) * Unit + parseInt(SubSeq(fraction \o <<"0", "0">>, 1, 2))

\* Math.round and Math.floor of a number of hundredths that is not negative
Round(x) == (x + (Unit \div 2)) \div Unit
Floor(x) == x \div Unit

WordWeek == <<"w","e","e","k">>
WordDay == <<"d","a","y">>
WordHour == <<"h","o","u","r">>
WordMinute == <<"m","i","n","u","t","e">>
Unknown == <<"U","n","k","n","o","w","n">>
NotSpecified == <<"N","o","t"," ","s","p","e","c","i","f","i","e","d">>

\* /(\d+)\s*-\s*(\d+)\s*(unit|units)s?/i
RangeOf(word) ==
  << Plus(DigitChars), Star(SpaceChars), Lit(<<"-">>), Star(SpaceChars), Plus(DigitChars),
     Star(SpaceChars), OneOfI(<<word, word \o <<"s">>>>), Opt({"s", "S"}) >>

\* /(\d+)\s*(unit|units)s?/i
CountOf(word) ==
  << Plus(DigitChars), Star(SpaceChars), OneOfI(<<word, word \o <<"s">>>>), Opt({"s", "S"}) >>

HourWords == <<WordHour, WordHour \o <<"s">>, <<"h","r">>, <<"h">>>>
MinuteWords == <<WordMinute, WordMinute \o <<"s">>, <<"m","i","n">>, <<"m">>>>

\* /(\d+(?:\.\d+)?)\s*(words)s?/i: the number has a fraction or has none, and
\* at one index only one of the two can match
WithFraction(words) ==
  << Plus(DigitChars), Lit(<<".">>), Plus(DigitChars), Star(SpaceChars), OneOfI(words),
     Opt({"s", "S"}) >>
WithoutFraction(words) ==
  << Plus(DigitChars), Star(SpaceChars), OneOfI(words), Opt({"s", "S"}) >>

\* parseFloat(match[1]) of the leftmost match (null: no match)
AmountIn(s, f, w) ==
  IF f = <<>> /\ w = <<>> THEN null
  ELSE IF w = <<>> \/ (f # <<>> /\ f[1] < w[1])
       THEN parseFloat(Group(s, f, 1, 1), Group(s, f, 3, 3))
       ELSE parseFloat(Group(s, w, 1, 1), <<>>)

Amount(s, words) ==
  AmountIn(s, Exec(s, WithFraction(words), 1), Exec(s, WithoutFraction(words), 1))

\* (min + max) / 2 * each, in hundredths
AverageOf(s, m, each) ==
  ((parseInt(Group(s, m, 1, 1)) + parseInt(Group(s, m, 5, 5))) * each * Unit) \div 2

OrZero(x) == IF x = null THEN 0 ELSE x
PositiveOrNull(x) == IF x > 0 THEN x ELSE null

MinutesPerDay == 8 * 60
MinutesPerWeek == 5 * 8 * 60

\* a parser that reads the days and the hours of a text and not its minutes
ParseWithoutMinutes(s, weekRange, weeks, dayRange, days) ==
  IF days # <<>> THEN Minutes(parseInt(Group(s, days, 1, 1)) * MinutesPerDay)
  ELSE PositiveOrNull(OrZero(Amount(s, HourWords)) * 60)

ParseMatches(s, weekRange, weeks, dayRange, days) ==
  IF weekRange # <<>> THEN AverageOf(s, weekRange, MinutesPerWeek)
  ELSE IF weeks # <<>> THEN Minutes(parseInt(Group(s, weeks, 1, 1)) * MinutesPerWeek)
  ELSE IF dayRange # <<>> THEN AverageOf(s, dayRange, MinutesPerDay)
  ELSE IF days # <<>> THEN Minutes(parseInt(Group(s, days, 1, 1)) * MinutesPerDay)
  ELSE PositiveOrNull(OrZero(Amount(s, HourWords)) * 60 + OrZero(Amount(s, MinuteWords)))

parseTimeToMinutes(timeString) ==
  IF timeString = <<>> \/ timeString = Unknown THEN null
  ELSE ParseMatches(timeString,
         Exec(timeString, RangeOf(WordWeek), 1), Exec(timeString, CountOf(WordWeek), 1),
         Exec(timeString, RangeOf(WordDay), 1), Exec(timeString, CountOf(WordDay), 1))

\* `${n} unit${n !== 1 ? 's' : ''}`
Counted(n, word) == DecimalString(n) \o <<" ">> \o word \o (IF n # 1 THEN <<"s">> ELSE <<>>)

\* ` ${n} unit(s)` if n > 0
AndCounted(n, word) == IF n > 0 THEN <<" ">> \o Counted(n, word) ELSE <<>>

formatMinutesToTime(minutes) ==
  IF minutes = null \/ minutes < 0 THEN Unknown
  ELSE IF minutes >= Minutes(60 * 24)
  THEN Counted(Floor(minutes) \div MinutesPerDay, WordDay)
       \o AndCounted(Floor(minutes % Minutes(MinutesPerDay)) \div 60, WordHour)
       \o AndCounted(Round(minutes % Minutes(60)), WordMinute)
  ELSE IF minutes >= Minutes(60)
  THEN Counted(Floor(minutes) \div 60, WordHour)
       \o AndCounted(Round(minutes % Minutes(60)), WordMinute)
  ELSE Counted(Round(minutes), WordMinute)

(***************************************************************************)
(* Process metrics: the steps of a diagram                                 *)
(***************************************************************************)
\* RegExp.prototype.exec in a loop under the g flag, String.prototype.match
\* with the g flag: M holds the match at every index that has one
RECURSIVE ExecLoop(_, _, _)
ExecLoop(M, m, acc) ==
  IF m = <<>> THEN acc
  ELSE ExecLoop(M, Leftmost({q \in M : q[1] >= EndOf(m)}), Append(acc, m))

ExecAll(s, pat) == ExecLoop(Matches(s, pat, 1), Exec(s, pat, 1), <<>>)

\* the leftmost match of a|b|..., the patterns starting with different text
ExecAny(s, pats) == Leftmost(UNION {Matches(s, pats[k], 1) : k \in 1..Len(pats)})

\* the text of the last group of the match m, a run that ends the pattern
LastGroup(s, m) == SubSeq(s, m[Len(m) - 1], m[Len(m)] - 1)

\* the whole text of the match m
Matched(s, m) == SubSeq(s, m[1], EndOf(m) - 1)

\* /\s*([a-zA-Z0-9_]+)\["([^"]+)"\]/g
nodeDefPattern ==
  << Star(SpaceChars), Plus(WordChars), Lit(<<"[", QUOTE>>), PlusNot({QUOTE}),
     Lit(<<QUOTE, "]">>) >>

\* an object key that is an array index: such keys are enumerated first, in
\* ascending order, the other keys after them in the order they were added
IsIndexKey(id) ==
  /\ \A k \in 1..Len(id) : id[k] \in DigitChars
  /\ Len(id) = 1 \/ id[1] # "0"

RECURSIVE Ascending(_)
Ascending(K) ==
  IF K = {} THEN <<>>
  ELSE <<CHOOSE k \in K : \A j \in K : parseInt(j) >= parseInt(k)>>
       \o Ascending(K \ {CHOOSE k \in K : \A j \in K : parseInt(j) >= parseInt(k)})

\* nodeDefinitions[nodeId] = nodeContent, for every match; added: the keys
\* that are no array index, in the order they were added
RECURSIVE Definitions(_, _, _, _, _)
Definitions(s, ms, k, content, added) ==
  IF k > Len(ms) THEN [content |-> content, added |-> added]
  ELSE Definitions(s, ms, k + 1,
         [id \in DOMAIN content \cup {Group(s, ms[k], 2, 2)} |->
            IF id = Group(s, ms[k], 2, 2) THEN Group(s, ms[k], 4, 4) ELSE content[id]],
         IF Group(s, ms[k], 2, 2) \in DOMAIN content \/ IsIndexKey(Group(s, ms[k], 2, 2))
         THEN added ELSE Append(added, Group(s, ms[k], 2, 2)))

\* Object.entries(nodeDefinitions): the keys in enumeration order
EntriesOf(defs) ==
  Ascending({id \in DOMAIN defs.content : IsIndexKey(id)}) \o defs.added

KwStart == <<"s","t","a","r","t">>

\* the node is clearly not a step
NotAStep(nodeId, content) ==
  \/ Includes(ToLowerCase(nodeId), KwStart)
  \/ Includes(ToLowerCase(nodeId), KwEnd)
  \/ Includes(ToLowerCase(content), KwStart \o <<":">>)
  \/ Includes(ToLowerCase(content), KwEnd \o <<":">>)
  \/ Includes(content, <<"?">>)

\* /Step\s+(\d+)|Submit\s+Step\s+(\d+)|Activity\s+(\d+)|Process\s+(\d+)/i
Numbered(word) == <<LitI(word), Plus(SpaceChars), Plus(DigitChars)>>
StepNumberPatterns ==
  << Numbered(<<"S","t","e","p">>),
     <<LitI(<<"S","u","b","m","i","t">>), Plus(SpaceChars)>> \o Numbered(<<"S","t","e","p">>),
     Numbered(<<"A","c","t","i","v","i","t","y">>),
     Numbered(<<"P","r","o","c","e","s","s">>) >>

\* /step(\d+)|s(\d+)|(\d+)/i
IdNumberPatterns ==
  << <<LitI(<<"s","t","e","p">>), Plus(DigitChars)>>,
     <<LitI(<<"s">>), Plus(DigitChars)>>,
     <<Plus(DigitChars)>> >>

\* the step number: of the content, else of the id, else the next count
StepNumberOf(nodeId, content, inContent, inId, count) ==
  IF inContent # <<>> THEN LastGroup(content, inContent)
  ELSE IF inId # <<>> THEN LastGroup(nodeId, inId)
  ELSE DecimalString(count + 1)

stepNumber(nodeId, content, count) ==
  StepNumberOf(nodeId, content, ExecAny(content, StepNumberPatterns),
               ExecAny(nodeId, IdNumberPatterns), count)

\* /\(([^)]*(?:day|week|hour|minute|min|hr|h|d|w)[^)]*)\)/i
TimeWords ==
  << WordDay, WordWeek, WordHour, WordMinute, <<"m","i","n">>, <<"h","r">>, <<"h">>, <<"d">>,
     <<"w">> >>
parenthesisTime ==
  << Lit(<<"(">>), StarNot({")"}), OneOfI(TimeWords), StarNot({")"}), Lit(<<")">>) >>

\* /(\d+(?:-\d+)?\s*(?:day|days|week|weeks|hour|hours|minute|minutes|min|mins|hr|hrs|h|d|w)s?)/i:
\* the number is a range or is none
PlainTimeWords ==
  << WordDay, WordDay \o <<"s">>, WordWeek, WordWeek \o <<"s">>, WordHour, WordHour \o <<"s">>,
     WordMinute, WordMinute \o <<"s">>, <<"m","i","n">>, <<"m","i","n","s">>, <<"h","r">>,
     <<"h","r","s">>, <<"h">>, <<"d">>, <<"w">> >>
plainTime ==
  << << Plus(DigitChars), Lit(<<"-">>), Plus(DigitChars), Star(SpaceChars),
        OneOfI(PlainTimeWords), Opt({"s", "S"}) >>,
     << Plus(DigitChars), Star(SpaceChars), OneOfI(PlainTimeWords), Opt({"s", "S"}) >> >>

TimeEstimateOf(content, inParens, plain) ==
  IF inParens # <<>> THEN Trim(Group(content, inParens, 2, 4))
  ELSE IF plain # <<>> THEN Trim(Matched(content, plain))
  ELSE Unknown

timeEstimate(content) ==
  TimeEstimateOf(content, Exec(content, parenthesisTime, 1), ExecAny(content, plainTime))

\* .replace(parenthesisTime, '').replace(plainTime, '').trim()
WithoutParens(content) == ReplaceMatch(content, Exec(content, parenthesisTime, 1), <<>>)
WithoutTime(content) == ReplaceMatch(content, ExecAny(content, plainTime), <<>>)

\* .replace(/[:;,.]+$/, '').trim()
TrailingPunctuation == <<Plus({":", ";", ",", "."}), Eos>>
stepName(content) ==
  Trim(ReplaceRegex(Trim(WithoutTime(WithoutParens(content))), TrailingPunctuation, <<>>))

StepTime(step, name, time) ==
  [step |-> step, stepName |-> name, time |-> time,
   timeMinutes |-> OrZero(parseTimeToMinutes(time))]

\* parseInt(a.step, 10) || Number.MAX_SAFE_INTEGER is less than the same of b
\* (step numbers are runs of digits below that maximum)
StepBefore(a, b) ==
  /\ parseInt(a.step) # 0
  /\ parseInt(b.step) = 0 \/ parseInt(a.step) < parseInt(b.step)

\* Array.prototype.sort with that comparison: stable
RECURSIVE SortSteps(_)
InsertStep(sorted, x) ==
  SubSeq(sorted, 1, LastUpTo(Len(sorted), LAMBDA k : ~StepBefore(x, sorted[k])))
  \o <<x>>
  \o SubSeq(sorted, LastUpTo(Len(sorted), LAMBDA k : ~StepBefore(x, sorted[k])) + 1, Len(sorted))
SortSteps(steps) ==
  IF steps = <<>> THEN <<>>
  ELSE InsertStep(SortSteps(SubSeq(steps, 1, Len(steps) - 1)), steps[Len(steps)])

\* the forEach over the entries
RECURSIVE StepsOfEntries(_, _, _, _)
StepsOfEntries(defs, ids, k, stepTimes) ==
  IF k > Len(ids) THEN stepTimes
  ELSE StepsOfEntries(defs, ids, k + 1,
         IF NotAStep(ids[k], defs.content[ids[k]]) THEN stepTimes
         ELSE Append(stepTimes,
                StepTime(stepNumber(ids[k], defs.content[ids[k]], Len(stepTimes)),
                         stepName(defs.content[ids[k]]),
                         timeEstimate(defs.content[ids[k]]))))

StepsOfDefinitions(defs) == SortSteps(StepsOfEntries(defs, EntriesOf(defs), 1, <<>>))

extractStepTimesFromDiagram(code) ==
  StepsOfDefinitions(Definitions(code, ExecAll(code, nodeDefPattern), 1, <<>>, <<>>))

\* stepTimes.reduce((sum, step) => sum + (step.timeMinutes || 0), 0)
RECURSIVE SumMinutes(_)
SumMinutes(stepTimes) ==
  IF stepTimes = <<>> THEN 0
  ELSE SumMinutes(SubSeq(stepTimes, 1, Len(stepTimes) - 1))
       + OrZero(stepTimes[Len(stepTimes)].timeMinutes)

\* timestamp, the time of the call, is left out of a ProcessMetrics
ProcessMetrics(totalSteps, totalTime, totalTimeMinutes, stepTimes, source) ==
  [totalSteps |-> totalSteps, totalTime |-> totalTime, totalTimeMinutes |-> totalTimeMinutes,
   stepTimes |-> stepTimes, source |-> source]

createDefaultMetrics(source) == ProcessMetrics(0, Unknown, 0, <<>>, source)

\* the box is no start, end, title or decision node
NonProcessWords ==
  { KwStart, KwEnd, <<"b","e","g","i","n">>, <<"f","i","n","i","s","h">>,
    <<"t","i","t","l","e">>, <<"?">>, <<"d","e","c","i","s","i","o","n">> }
IsProcessStep(box) == \A w \in NonProcessWords : ~Includes(ToLowerCase(box), w)

\* diagramCode.match(/\[[^\]]+\]/g) || [], filtered
BoxesOf(code, ms) == [k \in 1..Len(ms) |-> Matched(code, ms[k])]
processSteps(code) == SelectSeq(BoxesOf(code, ExecAll(code, AnyBracket)), IsProcessStep)

WorkflowMetrics(totalSteps, stepTimes, totalTimeMinutes) ==
  ProcessMetrics(totalSteps,
                 IF totalTimeMinutes > 0 THEN formatMinutesToTime(totalTimeMinutes) ELSE Unknown,
                 totalTimeMinutes, stepTimes, "workflow")

WorkflowMetricsOf(totalSteps, stepTimes) ==
  WorkflowMetrics(totalSteps, stepTimes, SumMinutes(stepTimes))

extractMetricsFromWorkflow(code) ==
  IF code = <<>> THEN createDefaultMetrics("workflow-empty")
  ELSE WorkflowMetricsOf(Len(processSteps(code)), extractStepTimesFromDiagram(code))

(***************************************************************************)
(* Process metrics: the steps of a document                                *)
(***************************************************************************)
\* elem.textContent.replace(/<[^>]+>/g, '').replace(/\s+/g, ' ').trim()
cleanText(textContent) ==
  Trim(ReplaceChain(textContent,
         << Rule(<<Lit(<<"<">>), PlusNot({">"}), Lit(<<">">>)>>, <<>>),
            Rule(<<Plus(SpaceChars)>>, <<Text(<<" ">>)>>) >>, 1))

\* /^Step\s+\d+$/i
StepRow == <<Bos, LitI(<<"S","t","e","p">>), Plus(SpaceChars), Plus(DigitChars), Eos>>

\* a row is the textContent of its td cells
IsStepRow(row) == Len(row) > 0 /\ Test(cleanText(row[1]), StepRow)

\* firstCellText.match(/\d+/)[0]
FirstNumber(s) == Matched(s, Exec(s, <<Plus(DigitChars)>>, 1))

StepOfRow(row) ==
  StepTime(FirstNumber(cleanText(row[1])),
           IF Len(row) > 1 THEN cleanText(row[2]) ELSE <<>>,
           IF Len(row) > 2 THEN cleanText(row[3]) ELSE Unknown)

RECURSIVE StepsOfRows(_)
StepsOfRows(rows) ==
  IF rows = <<>> THEN <<>>
  ELSE StepsOfRows(SubSeq(rows, 1, Len(rows) - 1))
       \o (IF IsStepRow(rows[Len(rows)]) THEN <<StepOfRow(rows[Len(rows)])>> ELSE <<>>)

\* stepTimes.sort((a, b) => parseInt(a.step) - parseInt(b.step)): stable
RECURSIVE SortByNumber(_)
InsertByNumber(sorted, x) ==
  SubSeq(sorted, 1, LastUpTo(Len(sorted), LAMBDA k : parseInt(sorted[k].step) <= parseInt(x.step)))
  \o <<x>>
  \o SubSeq(sorted,
            LastUpTo(Len(sorted), LAMBDA k : parseInt(sorted[k].step) <= parseInt(x.step)) + 1,
            Len(sorted))
SortByNumber(steps) ==
  IF steps = <<>> THEN <<>>
  ELSE InsertByNumber(SortByNumber(SubSeq(steps, 1, Len(steps) - 1)), steps[Len(steps)])

DocumentMetrics(stepTimes, totalTimeMinutes) ==
  ProcessMetrics(Len(stepTimes),
                 IF totalTimeMinutes > 0 THEN formatMinutesToTime(totalTimeMinutes)
                 ELSE NotSpecified,
                 totalTimeMinutes, stepTimes, "document")

DocumentMetricsOf(stepTimes) == DocumentMetrics(stepTimes, SumMinutes(stepTimes))

\* the server-side implementation, over the tr elements of the document in
\* document order; the browser's ends with the same statements
extractMetricsFromDocument(rows) == DocumentMetricsOf(SortByNumber(StepsOfRows(rows)))

(***************************************************************************)
(* Process metrics: mergeMetrics                                           *)
(***************************************************************************)
\* { ...step, source }
Sourced(step, source) ==
  [step |-> step.step, stepName |-> step.stepName, time |-> step.time,
   timeMinutes |-> step.timeMinutes, source |-> source]

\* the index of the key in the Map's entries (0: stepTimes.has(key) is false)
IndexOfKey(entries, key) == FirstFrom(1, Len(entries), LAMBDA k : entries[k].step = key)

\* stepTimes.set(step.step, ...): a key that is present keeps its place
MapSet(entries, entry) ==
  IF IndexOfKey(entries, entry.step) = 0 THEN Append(entries, entry)
  ELSE [entries EXCEPT ![IndexOfKey(entries, entry.step)] = entry]

RECURSIVE AddDocumentSteps(_, _, _)
AddDocumentSteps(entries, steps, k) ==
  IF k > Len(steps) THEN entries
  ELSE AddDocumentSteps(MapSet(entries, Sourced(steps[k], "document")), steps, k + 1)

\* the steps of the workflow set whether their key is present or not
RECURSIVE SetWorkflowSteps(_, _, _)
SetWorkflowSteps(entries, steps, k) ==
  IF k > Len(steps) THEN entries
  ELSE SetWorkflowSteps(MapSet(entries, Sourced(steps[k], "workflow")), steps, k + 1)

RECURSIVE AddWorkflowSteps(_, _, _)
AddWorkflowSteps(entries, steps, k) ==
  IF k > Len(steps) THEN entries
  ELSE AddWorkflowSteps(IF IndexOfKey(entries, steps[k].step) = 0
                        THEN MapSet(entries, Sourced(steps[k], "workflow")) ELSE entries,
                        steps, k + 1)

\* the two counts added
Added(a, b) == a + b

\* Math.max(a, b)
Max(a, b) == IF a >= b THEN a ELSE b

MergedMetrics(totalSteps, stepTimes, totalTimeMinutes) ==
  ProcessMetrics(totalSteps, formatMinutesToTime(totalTimeMinutes), totalTimeMinutes,
                 stepTimes, "merged")

\* a total that counts the document's steps only
MergedOfDocument(totalSteps, stepTimes) ==
  MergedMetrics(totalSteps, stepTimes,
                SumMinutes(SelectSeq(stepTimes, LAMBDA step : step.source = "document")))

Merged(totalSteps, stepTimes) == MergedMetrics(totalSteps, stepTimes, SumMinutes(stepTimes))

MergeOf(workflow, document) ==
  Merged(Max(workflow.totalSteps, document.totalSteps),
         SortSteps(AddWorkflowSteps(AddDocumentSteps(<<>>, document.stepTimes, 1),
                                    workflow.stepTimes, 1)))

mergeMetrics(workflow, document) ==
  MergeOf(IF workflow = None THEN createDefaultMetrics("workflow") ELSE workflow,
          IF document = None THEN createDefaultMetrics("document") ELSE document)

(***************************************************************************)
(* Durations formatted and parsed                                          *)
(***************************************************************************)
MaxMinutes == 2000

TimeInit ==
  /\ duration \in {Minutes(m) : m \in 0..MaxMinutes}
  /\ durationText = None
  /\ durationRead = None
  /\ diagramCode = <<>> /\ prevCode = <<>> /\ call = NoCall /\ error = ""
  /\ validated = FALSE /\ ops = 0
  /\ documentRows = <<>>
  /\ workflowMetrics = None /\ documentMetrics = None /\ processMetrics = None
  /\ workflowDiagram = <<>> /\ regeneration = <<>>
  /\ documentContent = <<>> /\ prevContent = <<>> /\ edit = <<>> /\ editError = <<>> /\ serialized = FALSE /\ edits = 0

FormatTime ==
  /\ durationText = None
  /\ durationText' = formatMinutesToTime(duration)
  /\ UNCHANGED <<duration, durationRead, editorVars, pageVars, docVars>>

\* durationRead holds the one value read
ParseTime ==
  /\ durationText # None
  /\ durationRead = None
  /\ durationRead' = <<parseTimeToMinutes(durationText)>>
  /\ UNCHANGED <<duration, durationText, editorVars, pageVars, docVars>>

TimeNext == FormatTime \/ ParseTime

TimeSpec == TimeInit /\ [][TimeNext]_vars

(***************************************************************************)
(* pages/index.js: the metrics of the page                                 *)
(***************************************************************************)
Id1 == <<"1">>
Id2 == <<"2">>
StepId(n) == <<"s">> \o NumberToString(n)

\* the diagrams the workflow is regenerated with
Diagrams ==
  { Source(<< Process(StepId(1), <<"R","e","v","i","e","w"," ","(","9","9"," ","m","i","n",")">>), Process(StepId(2), <<"A","p","p","r","o","v","e"," ","(","2","0"," ","m","i","n",")">>),
              PlainEdge(StepId(1), StepId(2)) >>),
    Source(<< Process(IdA, <<"x">>), Process(IdB, <<"y"," ","(","5","m",")">>),
              Decision(IdC, <<"q"," ","(","2","h",")">>),
              PlainEdge(IdA, IdB), LabeledEdge(IdB, <<"l">>, IdC) >>),
    Source(<< Process(IdA, <<"R","e","v","i","e","w">>), Process(IdB, <<"A","p","p","r","o","v","e">>), PlainEdge(IdA, IdB) >>),
    Source(<< PlainEdge(StartEnd(<<"S","t","a","r","t">>, <<"S","t","a","r","t">>), Process(IdA, <<"S","t","e","p"," ","1",":"," ","C","o","l","l","e","c","t"," ","(","1",".","5"," ","h","o","u","r","s",")">>)),
              PlainEdge(IdA, Decision(IdB, <<"C","o","m","p","l","e","t","e","?">>)),
              PlainEdge(IdB, StartEnd(<<"E","n","d">>, <<"E","n","d">>)) >>),
    Source(<< Process(IdA, <<"W","r","i","t","e"," ","r","e","p","o","r","t"," ","(","2"," ","h","o","u","r","s",")">>), Process(IdB, <<"S","e","n","d"," ","r","e","p","o","r","t"," ","(","1","0"," ","m","i","n",")">>),
              PlainEdge(IdA, IdB) >>),
    Source(<< Process(Id2, <<"F","i","l","e"," ","(","1","-","2"," ","w","e","e","k","s",")">>), Process(Id1, <<"W","a","i","t"," ","(","2"," ","d","a","y","s",")">>),
              PlainEdge(Id1, Id2) >>),
    Source(<< <<"A","[","C","o","l","l","e","c","t"," ","f","o","r","m","s","]">>, PlainEdge(IdA, Process(IdB, <<"S","t","e","p"," ","2"," ","C","h","e","c","k"," ","4","5"," ","m","i","n","u","t","e","s">>)),
              Process(IdB, <<"S","t","e","p"," ","2"," ","C","h","e","c","k"," ","1"," ","h","o","u","r"," ","3","0"," ","m","i","n","u","t","e","s">>) >>),
    Source(<< Process(IdA, <<"P","r","o","c","e","s","s"," ","3",":"," ","P","a","y"," ","(","3","0"," ","m","i","n",")">>), Process(IdB, <<"A","c","t","i","v","i","t","y"," ","3",":"," ","L","o","g"," ","(","0",".","5"," ","h",")">>),
              Process(IdC, <<"C","l","o","s","e"," ","(","d","r","a","f","t",")">>) >>) }

\* the step tables of the documents: the text of the cells of every row
StepTables ==
  { <<>>,
    << <<<<"S","t","e","p"," ","1">>, <<"R","e","v","i","e","w">>, <<"3","0"," ","m","i","n">>>> >>,
    << <<<<"S","t","e","p">>, <<"A","c","t","i","v","i","t","y">>, <<"T","i","m","e">>>>, <<<<"S","t","e","p"," ","2">>, <<"A","p","p","r","o","v","e">>, <<"1"," ","h","o","u","r">>>>,
       <<<<"S","t","e","p"," ","1">>, <<"R","e","v","i","e","w">>, <<"3","0"," ","m","i","n","u","t","e","s">>>> >>,
    << <<<<"S","t","e","p"," ","1">>, <<"R","e","v","i","e","w">>>>, <<<<"S","t","e","p"," ","2">>, <<"A","p","p","r","o","v","e">>, <<"s","o","o","n">>>> >>,
    << <<<<"S","t","e","p"," ","1">>, <<"D","r","a","f","t">>, <<"1","0"," ","m","i","n">>>>, <<<<"S","t","e","p"," ","1">>, <<"R","e","d","r","a","f","t">>, <<"2","0"," ","m","i","n">>>>,
       <<<<" ","s","t","e","p"," "," ","3"," ">>, <<"<","b",">","F","i","l","e","<","/","b",">">>, <<"2"," ","d","a","y","s">>>> >>,
    << <<<<"S","t","e","p"," ","3">>, <<"F","i","l","e">>, <<"1"," ","h","o","u","r">>>>, <<<<"S","t","e","p"," ","4">>, <<"C","l","o","s","e">>, <<"1","5"," ","m","i","n">>>> >> }

\* the documentMetrics of a regeneration response; None: the response has none
ReceivedMetrics ==
  { None,
    ProcessMetrics(5, <<"2"," ","h","o","u","r","s">>, Minutes(120),
                   << StepTime(Id1, <<"R","e","v","i","e","w">>, <<"3","0"," ","m","i","n">>), StepTime(Id2, <<"A","p","p","r","o","v","e">>, <<"1"," ","h","o","u","r">>),
                      StepTime(Id2, <<"S","i","g","n">>, <<"1","5"," ","m","i","n">>) >>, "document") }

PageInit ==
  /\ documentRows \in StepTables
  /\ workflowMetrics = None
  /\ documentMetrics = None
  /\ processMetrics = None
  /\ workflowDiagram = <<>>
  /\ regeneration = None
  /\ diagramCode = <<>> /\ prevCode = <<>> /\ call = NoCall /\ error = ""
  /\ validated = FALSE /\ ops = 0
  /\ duration = 0 /\ durationText = None /\ durationRead = None
  /\ documentContent = <<>> /\ prevContent = <<>> /\ edit = <<>> /\ editError = <<>> /\ serialized = FALSE /\ edits = 0

\* the metrics of every diagram and of every step table, extracted
MetricsOfDiagram == [diagram \in Diagrams |-> extractMetricsFromWorkflow(diagram)]
MetricsOfTable == [rows \in StepTables |-> extractMetricsFromDocument(rows)]

\* the diagram is the generator's, which hands its metrics over with it; the
\* metrics of the document are extracted if the document has content
WorkflowUpdate(diagram, ofWorkflow, ofDocument) ==
  /\ diagram # <<>>
  /\ workflowDiagram' = diagram
  /\ workflowMetrics' = ofWorkflow
  /\ documentMetrics' = ofDocument
  /\ processMetrics' = IF ofDocument # None THEN mergeMetrics(ofWorkflow, ofDocument)
                       ELSE ofWorkflow
  /\ UNCHANGED <<documentRows, regeneration, editorVars, timeVars, docVars>>

handleWorkflowUpdate ==
  \E diagram \in Diagrams :
    WorkflowUpdate(diagram, MetricsOfDiagram[diagram],
                   IF documentRows # <<>> THEN MetricsOfTable[documentRows] ELSE None)

\* the metrics are extracted again if the updated document has content
DocumentUpdate(rows, ofDocument) ==
  /\ documentRows' = rows
  /\ IF rows # <<>>
     THEN /\ documentMetrics' = ofDocument
          /\ processMetrics' = IF workflowMetrics # None
                               THEN mergeMetrics(workflowMetrics, ofDocument)
                               ELSE ofDocument
     ELSE UNCHANGED <<documentMetrics, processMetrics>>
  /\ UNCHANGED <<workflowMetrics, workflowDiagram, regeneration, editorVars, timeVars, docVars>>

handleDocumentUpdate ==
  \E rows \in StepTables : DocumentUpdate(rows, MetricsOfTable[rows])

\* the results a handler holds while it waits: what it reads of them later
Results(diagram, ofWorkflow) == [workflowDiagram |-> diagram, workflowMetrics |-> ofWorkflow]

\* handleDocumentRegeneration up to its await fetch(...): it returns at once if
\* a regeneration is in flight, and else requests one, holding the results
\* of the render it was made in
handleDocumentRegeneration ==
  /\ regeneration = None
  /\ regeneration' = <<Results(workflowDiagram, workflowMetrics)>>
  /\ UNCHANGED <<documentRows, workflowMetrics, documentMetrics, processMetrics, workflowDiagram>>
  /\ UNCHANGED <<editorVars, timeVars, docVars>>

\* handleDocumentRegeneration after its await, the response being ok: the
\* results it holds are written back with the new document and with the
\* metrics of the response, or those extracted from the new document if the
\* response has none, merged with the workflow metrics it holds
DocumentRegenerated(results, rows, ofDocument) ==
  /\ regeneration' = None
  /\ workflowDiagram' = results.workflowDiagram
  /\ workflowMetrics' = results.workflowMetrics
  /\ documentRows' = rows
  /\ documentMetrics' = ofDocument
  /\ processMetrics' = mergeMetrics(results.workflowMetrics, ofDocument)
  /\ UNCHANGED <<editorVars, timeVars, docVars>>

RegenerationResponse ==
  /\ regeneration # None
  /\ \E rows \in StepTables, received \in ReceivedMetrics :
       DocumentRegenerated(regeneration[1], rows,
                           IF received # None THEN received ELSE MetricsOfTable[rows])

\* handleDocumentRegeneration after its await, the response being an error:
\* the error is shown and the results stay
RegenerationFailed ==
  /\ regeneration # None
  /\ regeneration' = None
  /\ UNCHANGED <<documentRows, workflowMetrics, documentMetrics, processMetrics, workflowDiagram>>
  /\ UNCHANGED <<editorVars, timeVars, docVars>>

PageNext ==
  \/ handleWorkflowUpdate
  \/ handleDocumentUpdate
  \/ handleDocumentRegeneration
  \/ RegenerationResponse
  \/ RegenerationFailed

PageSpec == PageInit /\ [][PageNext]_vars

(***************************************************************************)
(* utils/documentEditor.js: the document                                   *)
(*                                                                         *)
(* A document content is held as the tree the HTML parser builds from it:  *)
(* the children of its body.  A node is an element (tag, colSpan, kids) or *)
(* a text (tag "#text", text).  The markup of a cell, which the code reads *)
(* and writes as a string (innerHTML), is a sequence of characters.        *)
(***************************************************************************)
Element(tag, colSpan, kids) == [tag |-> tag, colSpan |-> colSpan, text |-> <<>>, kids |-> kids]
TextNode(text) == [tag |-> "#text", colSpan |-> 1, text |-> text, kids |-> <<>>]
IsElement(node) == node.tag # "#text"

TagName ==
  [ table |-> <<"t","a","b","l","e">>, tbody |-> <<"t","b","o","d","y">>, tr |-> <<"t","r">>,
    td |-> <<"t","d">>, th |-> <<"t","h">>, caption |-> <<"c","a","p","t","i","o","n">>,
    h1 |-> <<"h","1">>, h2 |-> <<"h","2">>, h3 |-> <<"h","3">>, p |-> <<"p">>,
    ul |-> <<"u","l">>, ol |-> <<"o","l">>, li |-> <<"l","i">>, b |-> <<"b">> ]

Headings == {"h1", "h2", "h3", "h4", "h5", "h6"}
Cells == {"th", "td"}

\* the children of the node at a path (a path is the indices of the children
\* taken from the body; the empty path is the body)
RECURSIVE KidsAt(_, _)
KidsAt(kids, path) ==
  IF path = <<>> THEN kids ELSE KidsAt(kids[Head(path)].kids, Tail(path))

NodeAt(doc, path) == KidsAt(doc, SubSeq(path, 1, Len(path) - 1))[path[Len(path)]]

ParentOf(path) == SubSeq(path, 1, Len(path) - 1)

\* the paths of the elements below a path, in document order
RECURSIVE PathsIn(_, _, _)
PathsIn(kids, prefix, k) ==
  IF k > Len(kids) THEN <<>>
  ELSE (IF IsElement(kids[k])
        THEN <<Append(prefix, k)>> \o PathsIn(kids[k].kids, Append(prefix, k), 1)
        ELSE <<>>)
       \o PathsIn(kids, prefix, k + 1)

\* root.querySelectorAll(tags), root.querySelector(tags) (<<>>: null)
IsTagged(doc, path, tags) == NodeAt(doc, path).tag \in tags
TaggedIn(doc, paths, tags) == SelectSeq(paths, LAMBDA path : IsTagged(doc, path, tags))
querySelectorAll(doc, root, tags) == TaggedIn(doc, PathsIn(KidsAt(doc, root), root, 1), tags)
FirstOf(paths) == IF paths = <<>> THEN <<>> ELSE paths[1]
querySelector(doc, root, tags) == FirstOf(querySelectorAll(doc, root, tags))

\* node.textContent
RECURSIVE TextOfKids(_, _)
TextOfKids(kids, k) ==
  IF k > Len(kids) THEN <<>>
  ELSE (IF IsElement(kids[k]) THEN TextOfKids(kids[k].kids, 1) ELSE kids[k].text)
       \o TextOfKids(kids, k + 1)
textContent(node) == IF IsElement(node) THEN TextOfKids(node.kids, 1) ELSE node.text

\* the text of a text node as the serializer writes it
Escaped ==
  << Rule(<<Lit(<<"&">>)>>, <<Text(<<"&","a","m","p",";">>)>>),
     Rule(<<Lit(<<"<">>)>>, <<Text(<<"&","l","t",";">>)>>),
     Rule(<<Lit(<<">">>)>>, <<Text(<<"&","g","t",";">>)>>) >>
Escape(text) == ReplaceChain(text, Escaped, 1)

\* ` colspan="n"`, an attribute that is written if it is not 1
Attributes(node) ==
  IF node.colSpan = 1 THEN <<>>
  ELSE <<" ","c","o","l","s","p","a","n","=",QUOTE>> \o DecimalString(node.colSpan) \o <<QUOTE>>

\* element.innerHTML, read
RECURSIVE Serialize(_, _)
Serialize(kids, k) ==
  IF k > Len(kids) THEN <<>>
  ELSE (IF IsElement(kids[k])
        THEN <<"<">> \o TagName[kids[k].tag] \o Attributes(kids[k]) \o <<">">>
             \o Serialize(kids[k].kids, 1)
             \o <<"<", "/">> \o TagName[kids[k].tag] \o <<">">>
        ELSE Escape(kids[k].text))
       \o Serialize(kids, k + 1)
innerHTML(node) == Serialize(node.kids, 1)

\* element.innerHTML, written: the markup read by the HTML parser.  The markup
\* is text, the character references &amp; &lt; &gt; and b elements; a '<' or
\* '&' that starts none of these is text.
OpenB == <<"<","b",">">>
CloseB == <<"<","/","b",">">>
References ==
  << <<<<"&","a","m","p",";">>, "&">>, <<<<"&","l","t",";">>, "<">>,
     <<<<"&","g","t",";">>, ">">> >>
ReferenceAt(s, i) == FirstFrom(1, Len(References), LAMBDA r : StartsAt(s, i, References[r][1]))

\* the text c appended to the nodes: to the text node they end with, if any
AddText(nodes, c) ==
  IF nodes # <<>> /\ ~IsElement(nodes[Len(nodes)])
  THEN [nodes EXCEPT ![Len(nodes)] = TextNode(nodes[Len(nodes)].text \o <<c>>)]
  ELSE Append(nodes, TextNode(<<c>>))

\* the nodes read from index i on, inside a b element or not; next: the index
\* after the end tag that closed the element, or after the end of the markup
RECURSIVE ReadNodes(_, _, _, _)
AfterB(s, inB, nodes, inner) ==
  ReadNodes(s, inner.next, inB, Append(nodes, Element("b", 1, inner.nodes)))
ReadNodes(s, i, inB, nodes) ==
  IF i > Len(s) THEN [nodes |-> nodes, next |-> i]
  ELSE IF StartsAt(s, i, CloseB)
       THEN (IF inB THEN [nodes |-> nodes, next |-> i + Len(CloseB)]
             ELSE ReadNodes(s, i + Len(CloseB), inB, nodes))
  ELSE IF StartsAt(s, i, OpenB)
       THEN AfterB(s, inB, nodes, ReadNodes(s, i + Len(OpenB), TRUE, <<>>))
  ELSE IF ReferenceAt(s, i) # 0
       THEN ReadNodes(s, i + Len(References[ReferenceAt(s, i)][1]), inB,
                      AddText(nodes, References[ReferenceAt(s, i)][2]))
  ELSE ReadNodes(s, i + 1, inB, AddText(nodes, s[i]))

ParseFragment(markup) == ReadNodes(markup, 1, FALSE, <<>>).nodes

(***************************************************************************)
(* A document content is held as a tree: the tree that dom.serialize() was *)
(* given, with the texts next to each other made one (the markup written   *)
(* for them is the same).  new JSDOM(content) reads it.                    *)
(***************************************************************************)
AddNode(nodes, node) ==
  IF ~IsElement(node) /\ nodes # <<>> /\ ~IsElement(nodes[Len(nodes)])
  THEN [nodes EXCEPT ![Len(nodes)] = TextNode(@.text \o node.text)]
  ELSE Append(nodes, node)

RECURSIVE MergeTexts(_, _, _)
MergeTexts(kids, k, nodes) ==
  IF k > Len(kids) THEN nodes ELSE MergeTexts(kids, k + 1, AddNode(nodes, kids[k]))

RECURSIVE Written(_)
WrittenNode(node, kids) == IF IsElement(node) THEN [node EXCEPT !.kids = kids] ELSE node
Written(kids) ==
  MergeTexts([k \in 1..Len(kids) |-> WrittenNode(kids[k], Written(kids[k].kids))], 1, <<>>)

\* dom.serialize()
serialize(doc) == Written(doc)

\* The children of a table read by the HTML parser: the tr elements which are
\* children of the table in the markup are put into a tbody, one for each run
\* of them (white space between them goes with them).  open: the last of the
\* nodes is a tbody that the parser made for a tr and that is not closed.
RECURSIVE TableKids(_, _, _, _)
TableKids(kids, k, nodes, open) ==
  IF k > Len(kids) THEN nodes
  ELSE IF kids[k].tag = "tr" \/ (open /\ ~IsElement(kids[k]))
       THEN TableKids(kids, k + 1,
              IF open
              THEN [nodes EXCEPT ![Len(nodes)] = [@ EXCEPT !.kids = Append(@, kids[k])]]
              ELSE Append(nodes, Element("tbody", 1, <<kids[k]>>)),
              TRUE)
       ELSE TableKids(kids, k + 1, Append(nodes, kids[k]), FALSE)

RECURSIVE ReadKids(_)
ReadNode(node, kids) ==
  IF ~IsElement(node) THEN node
  ELSE [node EXCEPT !.kids = IF node.tag = "table" THEN TableKids(kids, 1, <<>>, FALSE)
                            ELSE kids]
ReadKids(kids) == [k \in 1..Len(kids) |-> ReadNode(kids[k], ReadKids(kids[k].kids))]

\* new JSDOM(content).window.document
JSDOM(content) == ReadKids(content)

(***************************************************************************)
(* parseDocumentContent                                                    *)
(*                                                                         *)
(* Sections, rows and cells are numbered from 0, as in the code; rowSpan,  *)
(* which no document here sets, is 1.                                      *)
(***************************************************************************)
DefaultTitle ==
  <<"P","r","o","c","e","s","s"," ","D","o","c","u","m","e","n","t">>
SectionWord == <<"S","e","c","t","i","o","n"," ">>

TrimmedText(doc, path) == Trim(textContent(NodeAt(doc, path)))

\* document.querySelector('h1, h2')?.textContent || 'Process Document'
TitleIn(doc, heading) ==
  IF heading = <<>> \/ textContent(NodeAt(doc, heading)) = <<>> THEN DefaultTitle
  ELSE textContent(NodeAt(doc, heading))

\* the nearest sibling before the table that is a heading (0: none)
PrecedingHeading(siblings, table) ==
  LastUpTo(table[Len(table)] - 1, LAMBDA k : siblings[k].tag \in Headings)

\* the first th or td of a row spans several columns
SpansColumns(doc, firstCell) == firstCell # <<>> /\ NodeAt(doc, firstCell).colSpan > 1

\* the title of the table's first row, if its first cell spans several columns
FirstRowTitle(doc, firstRow, tableIndex) ==
  IF firstRow # <<>> /\ SpansColumns(doc, querySelector(doc, firstRow, Cells))
  THEN TrimmedText(doc, querySelector(doc, firstRow, Cells))
  ELSE SectionWord \o DecimalString(tableIndex + 1)

SectionTitle(doc, table, tableIndex, caption, heading) ==
  IF caption # <<>> THEN TrimmedText(doc, caption)
  ELSE IF heading # 0 THEN TrimmedText(doc, Append(ParentOf(table), heading))
  ELSE FirstRowTitle(doc, querySelector(doc, table, {"tr"}), tableIndex)

sectionTitle(doc, table, tableIndex) ==
  SectionTitle(doc, table, tableIndex, querySelector(doc, table, {"caption"}),
               PrecedingHeading(KidsAt(doc, ParentOf(table)), table))

CellData(node) ==
  [content |-> innerHTML(node), textContent |-> Trim(textContent(node)),
   isHeader |-> node.tag = "th", colSpan |-> node.colSpan, rowSpan |-> 1]

RowData(doc, cells, rowIndex) ==
  [cells |-> [c \in 1..Len(cells) |-> CellData(NodeAt(doc, cells[c]))], rowIndex |-> rowIndex]

\* tableRows.forEach: the first row is skipped if its first cell spans several
\* columns, and so is every row without cells
IsSkippedRow(doc, row, rowIndex) ==
  \/ rowIndex = 0 /\ SpansColumns(doc, querySelector(doc, row, Cells))
  \/ querySelectorAll(doc, row, Cells) = <<>>

RECURSIVE RowsOf(_, _, _)
RowsOf(doc, tableRows, k) ==
  IF k > Len(tableRows) THEN <<>>
  ELSE (IF IsSkippedRow(doc, tableRows[k], k - 1) THEN <<>>
        ELSE <<RowData(doc, querySelectorAll(doc, tableRows[k], Cells), k - 1)>>)
       \o RowsOf(doc, tableRows, k + 1)

Section(title, tableIndex, rows) == [title |-> title, tableIndex |-> tableIndex, rows |-> rows]

\* tables.forEach: a table without rows gives no section
SectionOf(doc, table, tableIndex, rows) ==
  IF rows = <<>> THEN <<>> ELSE <<Section(sectionTitle(doc, table, tableIndex), tableIndex, rows)>>

RECURSIVE SectionsOf(_, _, _)
SectionsOf(doc, tables, k) ==
  IF k > Len(tables) THEN <<>>
  ELSE SectionOf(doc, tables[k], k - 1,
                 RowsOf(doc, querySelectorAll(doc, tables[k], {"tr"}), 1))
       \o SectionsOf(doc, tables, k + 1)

\* the paragraphs and the lists that have text
Paragraph(node) ==
  [type |-> "paragraph", content |-> innerHTML(node), textContent |-> Trim(textContent(node))]
ListItem(node) == [content |-> innerHTML(node), textContent |-> Trim(textContent(node))]
ListItems(doc, items) == [k \in 1..Len(items) |-> ListItem(NodeAt(doc, items[k]))]
List(doc, path) ==
  [type |-> NodeAt(doc, path).tag, content |-> innerHTML(NodeAt(doc, path)),
   items |-> ListItems(doc, querySelectorAll(doc, path, {"li"}))]

HasText(doc, path) == TrimmedText(doc, path) # <<>>
Blocks(doc, paragraphs, lists) ==
  [k \in 1..Len(paragraphs) |-> Paragraph(NodeAt(doc, paragraphs[k]))]
  \o [k \in 1..Len(lists) |-> List(doc, lists[k])]

textualContent(doc) ==
  Blocks(doc, SelectSeq(querySelectorAll(doc, <<>>, {"p"}), LAMBDA path : HasText(doc, path)),
         SelectSeq(querySelectorAll(doc, <<>>, {"ul", "ol"}), LAMBDA path : HasText(doc, path)))

ParsedDocument(title, sections, text) ==
  [title |-> title, sections |-> sections, textualContent |-> text]

\* an empty content has no title
NoSections == [title |-> <<>>, sections |-> <<>>, textualContent |-> <<>>]

ParsedTree(doc) ==
  ParsedDocument(TitleIn(doc, querySelector(doc, <<>>, {"h1", "h2"})),
                 SectionsOf(doc, querySelectorAll(doc, <<>>, {"table"}), 1),
                 textualContent(doc))

parseDocumentContent(htmlContent) ==
  IF htmlContent = <<>> THEN NoSections ELSE ParsedTree(JSDOM(htmlContent))

(***************************************************************************)
(* The document tree changed, written out and read again                   *)
(***************************************************************************)
\* the tree with the children of the node at a path replaced
RECURSIVE SetKidsAt(_, _, _)
SetKidsAt(kids, path, new) ==
  IF path = <<>> THEN new
  ELSE [kids EXCEPT ![Head(path)] = [@ EXCEPT !.kids = SetKidsAt(@, Tail(path), new)]]

Without(kids, k) == SubSeq(kids, 1, k - 1) \o SubSeq(kids, k + 1, Len(kids))
InsertedAt(kids, k, node) == SubSeq(kids, 1, k - 1) \o <<node>> \o SubSeq(kids, k, Len(kids))

\* cell.innerHTML = markup
setInnerHTML(doc, path, markup) == SetKidsAt(doc, path, ParseFragment(markup))

\* parent.appendChild(node)
appendChild(doc, parent, node) == SetKidsAt(doc, parent, Append(KidsAt(doc, parent), node))

\* parent.insertBefore(node, the child at the path before)
insertBefore(doc, parent, node, before) ==
  SetKidsAt(doc, parent, InsertedAt(KidsAt(doc, parent), before[Len(before)], node))

\* node.parentNode.removeChild(node)
removeChild(doc, path) ==
  SetKidsAt(doc, ParentOf(path), Without(KidsAt(doc, ParentOf(path)), path[Len(path)]))

(***************************************************************************)
(* updateDocumentCell, addDocumentRow, removeDocumentRow                    *)
(***************************************************************************)
\* new Error(`${message}: ${index}`), and the exception of the DOM for a
\* reference node that is no child
Error(message, index) == [message |-> message, index |-> index]
NotFoundError == Error("NotFoundError", 0)

InRange(index, seq) == index >= 0 /\ index < Len(seq)

\* the DOM found again through tableIndex and rowIndex
TableOf(doc, section) == querySelectorAll(doc, <<>>, {"table"})[section.tableIndex + 1]
RowsOfTable(doc, section) == querySelectorAll(doc, TableOf(doc, section), {"tr"})
RowOf(doc, section, row) == RowsOfTable(doc, section)[row.rowIndex + 1]
CellsOfRow(doc, section, row) == querySelectorAll(doc, RowOf(doc, section, row), Cells)

CellUpdated(doc, section, row, cellIndex, newContent) ==
  IF section.tableIndex >= Len(querySelectorAll(doc, <<>>, {"table"}))
  THEN Thrown(Error("Table with index not found", section.tableIndex))
  ELSE IF row.rowIndex >= Len(RowsOfTable(doc, section))
  THEN Thrown(Error("Row with index not found in table", row.rowIndex))
  ELSE IF cellIndex >= Len(CellsOfRow(doc, section, row))
  THEN Thrown(Error("Cell with index not found in row", cellIndex))
  ELSE Returned(serialize(setInnerHTML(doc, CellsOfRow(doc, section, row)[cellIndex + 1],
                                       newContent)))

\* the cell index is checked against zero only
CellUpdateBelowOnly(doc, parsedDocument, sectionIndex, rowIndex, cellIndex, newContent) ==
  IF ~InRange(sectionIndex, parsedDocument.sections)
  THEN Thrown(Error("Invalid section index", sectionIndex))
  ELSE IF ~InRange(rowIndex, parsedDocument.sections[sectionIndex + 1].rows)
  THEN Thrown(Error("Invalid row index", rowIndex))
  ELSE IF cellIndex < 0
  THEN Thrown(Error("Invalid cell index", cellIndex))
  ELSE CellUpdated(doc, parsedDocument.sections[sectionIndex + 1],
                   parsedDocument.sections[sectionIndex + 1].rows[rowIndex + 1],
                   cellIndex, newContent)

CellUpdateIn(doc, parsedDocument, sectionIndex, rowIndex, cellIndex, newContent) ==
  IF ~InRange(sectionIndex, parsedDocument.sections)
  THEN Thrown(Error("Invalid section index", sectionIndex))
  ELSE IF ~InRange(rowIndex, parsedDocument.sections[sectionIndex + 1].rows)
  THEN Thrown(Error("Invalid row index", rowIndex))
  ELSE IF ~InRange(cellIndex, parsedDocument.sections[sectionIndex + 1].rows[rowIndex + 1].cells)
  THEN Thrown(Error("Invalid cell index", cellIndex))
  ELSE CellUpdated(doc, parsedDocument.sections[sectionIndex + 1],
                   parsedDocument.sections[sectionIndex + 1].rows[rowIndex + 1],
                   cellIndex, newContent)

updateDocumentCell(content, sectionIndex, rowIndex, cellIndex, newContent) ==
  CellUpdateIn(JSDOM(content), parseDocumentContent(content),
               sectionIndex, rowIndex, cellIndex, newContent)

\* the new tr with a td for each of the contents
NewRow(cellContents) ==
  Element("tr", 1,
          [k \in 1..Len(cellContents) |-> Element("td", 1, ParseFragment(cellContents[k]))])

\* the row is appended to the table or inserted before one of its tr elements,
\* which fails if that tr is no child of the table
RowAddedAt(doc, table, rows, position, newRow) ==
  IF position = -1 \/ position >= Len(rows)
  THEN Returned(serialize(appendChild(doc, table, newRow)))
  ELSE IF ParentOf(rows[position + 1]) # table THEN Thrown(NotFoundError)
  ELSE Returned(serialize(insertBefore(doc, table, newRow, rows[position + 1])))

RowAdded(doc, section, position, cellContents) ==
  IF section.tableIndex >= Len(querySelectorAll(doc, <<>>, {"table"}))
  THEN Thrown(Error("Table with index not found", section.tableIndex))
  ELSE RowAddedAt(doc, TableOf(doc, section), RowsOfTable(doc, section), position,
                  NewRow(cellContents))

RowAddIn(doc, parsedDocument, sectionIndex, position, cellContents) ==
  IF ~InRange(sectionIndex, parsedDocument.sections)
  THEN Thrown(Error("Invalid section index", sectionIndex))
  ELSE RowAdded(doc, parsedDocument.sections[sectionIndex + 1], position, cellContents)

addDocumentRow(content, sectionIndex, position, cellContents) ==
  RowAddIn(JSDOM(content), parseDocumentContent(content),
           sectionIndex, position, cellContents)

RowRemoved(doc, section, row) ==
  IF section.tableIndex >= Len(querySelectorAll(doc, <<>>, {"table"}))
  THEN Thrown(Error("Table with index not found", section.tableIndex))
  ELSE IF row.rowIndex >= Len(RowsOfTable(doc, section))
  THEN Thrown(Error("Row with index not found in table", row.rowIndex))
  ELSE Returned(serialize(removeChild(doc, RowOf(doc, section, row))))

RowRemovalIn(doc, parsedDocument, sectionIndex, rowIndex) ==
  IF ~InRange(sectionIndex, parsedDocument.sections)
  THEN Thrown(Error("Invalid section index", sectionIndex))
  ELSE IF ~InRange(rowIndex, parsedDocument.sections[sectionIndex + 1].rows)
  THEN Thrown(Error("Invalid row index", rowIndex))
  ELSE RowRemoved(doc, parsedDocument.sections[sectionIndex + 1],
                  parsedDocument.sections[sectionIndex + 1].rows[rowIndex + 1])

removeDocumentRow(content, sectionIndex, rowIndex) ==
  RowRemovalIn(JSDOM(content), parseDocumentContent(content),
               sectionIndex, rowIndex)

(***************************************************************************)
(* The document editor (components/DocumentEditor.jsx) in the document     *)
(* viewer (components/TimeEstimateEditor.jsx), which holds the document    *)
(* content and replaces it by the result of every successful edit.         *)
(***************************************************************************)
MaxEdits == 2
MaxIndex == 1

Td(text) == Element("td", 1, <<TextNode(text)>>)
Th(text) == Element("th", 1, <<TextNode(text)>>)
Tr(cells) == Element("tr", 1, cells)
Table(kids) == Element("table", 1, kids)
Titled(tag, text) == Element(tag, 1, <<TextNode(text)>>)

\* a table under the document's heading, and a paragraph
PlanDocument ==
  << Titled("h1", <<"P","l","a","n">>),
     Table(<< Tr(<<Th(<<"S","t","e","p">>), Th(<<"T","i","m","e">>)>>), Tr(<<Td(<<"D","r","a","f","t">>), Td(<<"2","h">>)>>) >>),
     Titled("p", <<"N","o","t","e">>) >>

\* a table without rows before a table whose first row is its title
TasksDocument ==
  << Table(<<>>),
     Table(<< Tr(<<Element("td", 2, <<TextNode(<<"T","a","s","k","s">>)>>)>>),
              Tr(<<Td(<<"a">>), Td(<<"b">>)>>),
              Tr(<<Td(<<"c">>), Td(<<"d">>)>>) >>) >>

\* a table in a cell of a table
NestedDocument ==
  << Table(<< Tr(<< Element("td", 1, <<TextNode(<<"x">>), Table(<<Tr(<<Td(<<"n">>)>>)>>)>>),
                    Td(<<"y">>) >>) >>) >>

\* a table with a caption, a tbody, a row without cells; a list
CostsDocument ==
  << Table(<< Titled("caption", <<"C","o","s","t","s">>),
              Element("tbody", 1, << Tr(<<>>), Tr(<<Td(<<"Q","&","A">>), Td(<<"<","1">>)>>) >>) >>),
     Element("ul", 1, <<Titled("li", <<"o","n","e">>)>>) >>

Documents == {PlanDocument, TasksDocument, NestedDocument, CostsDocument}

Indices == -1..MaxIndex
Contents == {<<"v">>, <<"Q","&","A">>, <<"<","b",">","v">>}
Positions == {-1, 0, 1}
NewCellValues == {<<<<"v">>>>, <<<<"a">>, <<"<","b",">","v">>>>, <<<<"a">>, <<" ">>>>}

\* coordinate: <<rowIndex, cellIndex>>, <<rowIndex>> or <<position>>
Edit(op, sectionIndex, coordinate, newContent) ==
  [op |-> op, sectionIndex |-> sectionIndex, coordinate |-> coordinate,
   newContent |-> newContent, ok |-> FALSE, error |-> <<>>]

DocInit ==
  /\ documentContent \in Documents
  /\ prevContent = <<>>
  /\ edit = <<>>
  /\ editError = <<>>
  /\ serialized = FALSE
  /\ edits = 0
  /\ diagramCode = <<>> /\ prevCode = <<>> /\ call = NoCall /\ error = ""
  /\ validated = FALSE /\ ops = 0
  /\ duration = 0 /\ durationText = None /\ durationRead = None
  /\ documentRows = <<>>
  /\ workflowMetrics = None /\ documentMetrics = None /\ processMetrics = None
  /\ workflowDiagram = <<>> /\ regeneration = <<>>

\* try { onUpdate(mutator(documentContent, ...)) } catch (err) { setError(...) }:
\* the viewer holds what is returned, and the editor's error is cleared when
\* the content it is given is another string
Edited(result, failed, e) ==
  /\ edits < MaxEdits
  /\ edits' = edits + 1
  /\ prevContent' = documentContent
  /\ edit' = [e EXCEPT !.ok = result.ok, !.error = IF result.ok THEN <<>> ELSE <<result.error>>]
  /\ IF result.ok
     THEN /\ documentContent' = result.code
          /\ serialized' = TRUE
          /\ editError' = IF serialized /\ result.code = documentContent THEN editError ELSE <<>>
     ELSE /\ editError' = <<failed, result.error>>
          /\ UNCHANGED <<documentContent, serialized>>
  /\ UNCHANGED <<editorVars, timeVars, pageVars>>

handleCellUpdate ==
  \E sectionIndex \in Indices, rowIndex \in Indices, cellIndex \in Indices, newContent \in Contents :
    Edited(updateDocumentCell(documentContent, sectionIndex, rowIndex, cellIndex, newContent),
           "Failed to update cell",
           Edit("updateDocumentCell", sectionIndex, <<rowIndex, cellIndex>>, newContent))

\* a blank value among the new cells is refused before the mutator is called
IsBlank(value) == Trim(value) = <<>>

handleAddRow ==
  \E sectionIndex \in Indices, position \in Positions, newCellValues \in NewCellValues :
    IF \E k \in 1..Len(newCellValues) : IsBlank(newCellValues[k])
    THEN /\ edits < MaxEdits
         /\ edits' = edits + 1
         /\ editError' = <<"All cells must have content">>
         /\ UNCHANGED <<documentContent, prevContent, edit, serialized>>
         /\ UNCHANGED <<editorVars, timeVars, pageVars>>
    ELSE Edited(addDocumentRow(documentContent, sectionIndex, position, newCellValues),
                "Failed to add row",
                Edit("addDocumentRow", sectionIndex, <<position>>, newCellValues))

handleRemoveRow ==
  \E sectionIndex \in Indices, rowIndex \in Indices :
    Edited(removeDocumentRow(documentContent, sectionIndex, rowIndex),
           "Failed to remove row",
           Edit("removeDocumentRow", sectionIndex, <<rowIndex>>, <<>>))

DocNext == handleCellUpdate \/ handleAddRow \/ handleRemoveRow

DocSpec == DocInit /\ [][DocNext]_vars

(***************************************************************************)
(* Properties                                                              *)
(***************************************************************************)
NodesOf(code) == parseMermaidDiagram(code).nodes
ConnectionsOf(code) == parseMermaidDiagram(code).connections
NodeCount(code) == Cardinality(DOMAIN NodesOf(code))

\* a group opener is a `subgraph ...` line, a group closer a bare `end` line
IsOpener(line) == StartsWith(Trim(line), KwSubgraph)
IsCloser(line) == Trim(line) = KwEnd
Openers(lines, k) == Cardinality({ i \in 1..k : IsOpener(lines[i]) })
Closers(lines, k) == Cardinality({ i \in 1..k : IsCloser(lines[i]) })
BalancedLines(lines) ==
  /\ Openers(lines, Len(lines)) = Closers(lines, Len(lines))
  /\ \A k \in 1..Len(lines) : Closers(lines, k) <= Openers(lines, k)
Balanced(code) == BalancedLines(Split(code))

Did(op) == call.op = op /\ call.ok
Failed(op) == call.op = op /\ ~call.ok

\* C1: the validator is idempotent: validating a source the validator has
\* returned gives that source back unchanged
ValidateIdempotent ==
  Did("validate") => validateAndFixMermaidSyntax(diagramCode) = diagramCode

\* C2: in every source the validator returns, the `subgraph` lines and the
\* bare `end` lines are equal in number and every `end` closes an open group
ValidateBalanced == Did("validate") => Balanced(diagramCode)

\* C3: a source that removeNode returns parses to at least two nodes, so no
\* sequence of removals takes the diagram below two nodes
RemoveNodeKeepsTwo == Did("removeNode") => NodeCount(diagramCode) >= MinNodes

\* the call changed the label of a node that had a line of its own
LabelledExplicit ==
  /\ Did("updateNodeLabel")
  /\ call.nodeId \in DOMAIN NodesOf(prevCode)
  /\ NodesOf(prevCode)[call.nodeId].line # NoLine

SameButLine(before, after, line) ==
  /\ Len(after) = Len(before)
  /\ \A k \in 1..Len(before) : k # line => after[k] = before[k]

TimedImplicit ==
  /\ Did("updateNodeTimeEstimate")
  /\ call.nodeId \in DOMAIN NodesOf(prevCode)
  /\ NodesOf(prevCode)[call.nodeId].line = NoLine
  /\ NodesOf(prevCode)[call.nodeId].isImplicit

\* C5: after updateNodeTimeEstimate on an implicit node the source parses to
\* that node as an explicit one, with the label it had and the new estimate
ImplicitMaterialized ==
  TimedImplicit =>
    /\ call.nodeId \in DOMAIN NodesOf(diagramCode)
    /\ NodesOf(diagramCode)[call.nodeId].line # NoLine
    /\ NodesOf(diagramCode)[call.nodeId].label = NodesOf(prevCode)[call.nodeId].label
    /\ NodesOf(diagramCode)[call.nodeId].timeEstimate = call.arg

\* the call removed the node `end` from a source with properly closed groups
RemovedEnd ==
  /\ Did("removeNode")
  /\ call.nodeId = KwEnd
  /\ Openers(Split(prevCode), Len(Split(prevCode))) > 0
  /\ Balanced(prevCode)

\* C6: removing the node `end` leaves every group of the source closed: the
\* result has the groups the source had, and its `subgraph` and `end` lines
\* balance
RemoveEndKeepsGroups ==
  RemovedEnd =>
    /\ Balanced(diagramCode)
    /\ Openers(Split(diagramCode), Len(Split(diagramCode))) =
         Openers(Split(prevCode), Len(Split(prevCode)))

\* the node `end` was removed from a source in which lines follow a closer,
\* which the removal renames
RemovedEndBeforeCloser ==
  /\ RemovedEnd
  /\ \E k \in 1..(Len(Split(diagramCode)) - 1) : IsCloser(Split(diagramCode)[k])

Known(nodeId) == nodeId \in DOMAIN NodesOf(prevCode)
Connected(from, to) ==
  \E k \in 1..Len(ConnectionsOf(prevCode)) :
    ConnectionsOf(prevCode)[k].from = from /\ ConnectionsOf(prevCode)[k].to = to

\* the id addNode gives a node it is asked to add as nodeId
UsedId(nodeId) ==
  IF ToLowerCase(nodeId) \in reservedKeywords THEN nodeId \o <<"N","o","d","e">> ELSE nodeId

\* the preconditions of the mutators, other than addNode's, on the call made
BrokenPrecondition ==
  \/ /\ call.op \in {"updateNodeTimeEstimate", "updateNodeLabel", "removeNode"}
     /\ ~Known(call.nodeId)
  \/ call.op = "updateConnectionLabel" /\ ~Connected(call.from, call.to)
  \/ call.op = "addConnection" /\ (~Known(call.from) \/ ~Known(call.to))
  \/ call.op = "removeNode" /\ NodeCount(prevCode) <= MinNodes

RequestedIdExists == call.op = "addNode" /\ call.nodeId # <<>> /\ Known(call.nodeId)
UsedIdExists == call.op = "addNode" /\ call.nodeId # <<>> /\ Known(UsedId(call.nodeId))

Refused == ~call.ok /\ diagramCode = prevCode /\ error # ""

LabelUpdateKeepsTime ==
  LabelledExplicit /\ NodesOf(prevCode)[call.nodeId].timeEstimate # None =>
    /\ call.nodeId \in DOMAIN NodesOf(diagramCode)
    /\ NodesOf(diagramCode)[call.nodeId].label = call.arg
    /\ NodesOf(diagramCode)[call.nodeId].timeEstimate =
         NodesOf(prevCode)[call.nodeId].timeEstimate

\* C9: updateConnectionLabel on a connection the parser reports returns a
\* source in which the parser reports that connection with the new label,
\* whatever the label and the spacing of the edge were
ConnectionLabelSet ==
  call.op = "updateConnectionLabel" /\ Connected(call.from, call.to) =>
    /\ call.ok
    /\ \E k \in 1..Len(ConnectionsOf(diagramCode)) :
         /\ ConnectionsOf(diagramCode)[k].from = call.from
         /\ ConnectionsOf(diagramCode)[k].to = call.to
         /\ ConnectionsOf(diagramCode)[k].label = call.arg

\* C10: after a successful removeNode the source parses to no node with the
\* removed id and to no connection from or to it
RemovedNodeGone ==
  Did("removeNode") =>
    /\ call.nodeId \notin DOMAIN NodesOf(diagramCode)
    /\ \A k \in 1..Len(ConnectionsOf(diagramCode)) :
         /\ ConnectionsOf(diagramCode)[k].from # call.nodeId
         /\ ConnectionsOf(diagramCode)[k].to # call.nodeId

\* the lines of the source on which the parser reports a connection from->to
EdgeLines(code, from, to) ==
  { ConnectionsOf(code)[k].line : k \in { j \in 1..Len(ConnectionsOf(code)) :
      ConnectionsOf(code)[j].from = from /\ ConnectionsOf(code)[j].to = to } }

\* C11: removeConnection does not fail, and returns the validated source
\* without the lines that are an edge from->to and with every other line; a
\* source without such a line is returned validated
RemoveConnectionExact ==
  call.op = "removeConnection" /\ prevCode # <<>> =>
    /\ call.ok
    /\ diagramCode = validateAndFixMermaidSyntax(
         Join(FilterLines(Split(prevCode), EdgeLines(prevCode, call.from, call.to), 1)))

HasConnection(code, from, to) ==
  \E k \in 1..Len(ConnectionsOf(code)) :
    ConnectionsOf(code)[k].from = from /\ ConnectionsOf(code)[k].to = to

\* the id addNode adds the node under
FinalId == SafeId(IdOrStep(call.arg, NodesOf(prevCode)))

\* C12: after a successful addNode the source parses to a node with the final
\* id that has the given label, kind and time estimate, to a connection for
\* each requested endpoint, and to every node and connection of the input
AddNodeAdds ==
  Did("addNode") =>
    /\ FinalId \in DOMAIN NodesOf(diagramCode)
    /\ NodesOf(diagramCode)[FinalId].type = call.arg.type
    /\ NodesOf(diagramCode)[FinalId].label = call.arg.label
    /\ NodesOf(diagramCode)[FinalId].timeEstimate =
         (IF call.arg.timeEstimate = <<>> THEN None ELSE call.arg.timeEstimate)
    /\ call.arg.connectFrom # <<>> => HasConnection(diagramCode, call.arg.connectFrom, FinalId)
    /\ call.arg.connectTo # <<>> => HasConnection(diagramCode, FinalId, call.arg.connectTo)
    /\ DOMAIN NodesOf(prevCode) \subseteq DOMAIN NodesOf(diagramCode)
    /\ \A k \in 1..Len(ConnectionsOf(prevCode)) :
         HasConnection(diagramCode, ConnectionsOf(prevCode)[k].from, ConnectionsOf(prevCode)[k].to)

\* C13: addNode called without an id takes an id that no node of the source
\* uses, and so does not fail with the id already existing
GeneratedIdIsNew ==
  call.op = "addNode" /\ call.nodeId = <<>> =>
    /\ FinalId \notin DOMAIN NodesOf(prevCode)
    /\ error # "Node already exists"

(***************************************************************************)
(* The metrics of the page                                                 *)
(***************************************************************************)
\* the sum of the timeMinutes of the steps
RECURSIVE TotalOf(_)
TotalOf(stepTimes) ==
  IF stepTimes = <<>> THEN 0 ELSE stepTimes[1].timeMinutes + TotalOf(Tail(stepTimes))

IsMerged(m) == m # None /\ m.source = "merged"

\* C14: the metrics extracted from a diagram have a totalTimeMinutes that is
\* the sum of the timeMinutes of their stepTimes, and so have merged metrics
\* over the merged step list, whatever totals the merged metrics carried
TotalIsSum ==
  /\ workflowMetrics # None =>
       workflowMetrics.totalTimeMinutes = TotalOf(workflowMetrics.stepTimes)
  /\ IsMerged(processMetrics) =>
       processMetrics.totalTimeMinutes = TotalOf(processMetrics.stepTimes)

\* merged from a diagram with timed steps and from document metrics whose total
\* is not the sum of their steps
MergedOtherTotals ==
  /\ IsMerged(processMetrics)
  /\ workflowMetrics # None
  /\ workflowMetrics.totalTimeMinutes > 0
  /\ documentMetrics.totalTimeMinutes # TotalOf(documentMetrics.stepTimes)
  /\ processMetrics.totalTimeMinutes # documentMetrics.totalTimeMinutes

StepsOf(m) == IF m = None THEN <<>> ELSE m.stepTimes
KeysOf(stepTimes) == {stepTimes[k].step : k \in DOMAIN stepTimes}

\* the merged entry e is the entry x of an input
SameStep(e, x) ==
  /\ e.step = x.step
  /\ e.stepName = x.stepName
  /\ e.time = x.time
  /\ e.timeMinutes = x.timeMinutes

\* the merged entry e is an entry of the steps given, marked with their source
EntryOf(e, stepTimes, source) ==
  /\ e.source = source
  /\ \E k \in DOMAIN stepTimes : SameStep(e, stepTimes[k])

MinutesOf(stepTimes) == [k \in DOMAIN stepTimes |-> stepTimes[k].timeMinutes]

\* document {1: 30 min} and workflow {1: 99 min, 2: 20 min}
IsExample ==
  /\ IsMerged(processMetrics)
  /\ workflowMetrics # None
  /\ MinutesOf(workflowMetrics.stepTimes) = <<Minutes(99), Minutes(20)>>
  /\ MinutesOf(documentMetrics.stepTimes) = <<Minutes(30)>>
  /\ workflowMetrics.stepTimes[1].step = documentMetrics.stepTimes[1].step

StepsCountedAreListed ==
  workflowMetrics # None => workflowMetrics.totalSteps = Len(workflowMetrics.stepTimes)

IsFormatted(m) == m.totalTime = formatMinutesToTime(m.totalTimeMinutes)

\* C17: the metrics extracted from a diagram, those extracted from a document
\* and merged metrics have a totalTime that is their totalTimeMinutes
\* formatted, for every totalTimeMinutes, 0 too
TotalTimeIsFormatted ==
  /\ workflowMetrics # None => IsFormatted(workflowMetrics)
  /\ documentMetrics # None /\ documentMetrics = extractMetricsFromDocument(documentRows) =>
       IsFormatted(documentMetrics)
  /\ IsMerged(processMetrics) => IsFormatted(processMetrics)

(***************************************************************************)
(* Durations                                                               *)
(***************************************************************************)
\* the duration is a whole number of minutes, at least one, and its text has
\* been read back
ReadBack == durationRead # None /\ duration >= Minutes(1)

\* C18 as stated: reading the text of a whole number of minutes m >= 1 gives
\* m back, in the minute, the hour and the day format
RoundTrip == ReadBack => durationRead[1] = duration

\* the whole working days of a duration
WholeDays(d) == Minutes(MinutesPerDay * (Floor(d) \div MinutesPerDay))

\* C18: reading the text of a whole number of minutes m >= 1 gives m back in
\* the minute and the hour format (m below 24 hours); in the day format it
\* gives the whole 8-hour days of m, without its hours and minutes
RoundTripOrDays ==
  ReadBack =>
    durationRead[1] = IF duration < Minutes(60 * 24) THEN duration ELSE WholeDays(duration)

\* "2 hours 30 minutes" read back as 150 minutes
ReadExample ==
  /\ ReadBack
  /\ durationText = <<"2"," ","h","o","u","r","s"," ","3","0"," ","m","i","n","u","t","e","s">>
  /\ durationRead = <<Minutes(150)>>

(***************************************************************************)
(* The document mutators                                                   *)
(***************************************************************************)
\* the document the last edit was given, parsed
SectionsBefore == parseDocumentContent(prevContent).sections
Edits(ops2) == edit # <<>> /\ edit.op \in ops2
SectionInRange == edit.sectionIndex \in 0..(Len(SectionsBefore) - 1)
RowsBefore == SectionsBefore[edit.sectionIndex + 1].rows
RowInRange == edit.coordinate[1] \in 0..(Len(RowsBefore) - 1)
CellsBefore == RowsBefore[edit.coordinate[1] + 1].cells
CellInRange == edit.coordinate[2] \in 0..(Len(CellsBefore) - 1)

SectionOutOfRange ==
  Edits({"updateDocumentCell", "addDocumentRow", "removeDocumentRow"}) /\ ~SectionInRange
RowOutOfRange ==
  Edits({"updateDocumentCell", "removeDocumentRow"}) /\ SectionInRange /\ ~RowInRange
CellOutOfRange ==
  Edits({"updateDocumentCell"}) /\ SectionInRange /\ RowInRange /\ ~CellInRange

\* the edit threw the error of this message and index, and the document held
\* is the one the edit was given
EditRefused(message, index) ==
  /\ ~edit.ok
  /\ edit.error = <<Error(message, index)>>
  /\ documentContent = prevContent

\* C19: updateDocumentCell, addDocumentRow and removeDocumentRow given a section
\* index out of range, updateDocumentCell and removeDocumentRow given a row
\* index out of range, and updateDocumentCell given a cell index out of range
\* throw the error that names that index; no document is returned, and the
\* document the editor holds stays as it was.
OutOfRangeRefused ==
  /\ SectionOutOfRange => EditRefused("Invalid section index", edit.sectionIndex)
  /\ RowOutOfRange => EditRefused("Invalid row index", edit.coordinate[1])
  /\ CellOutOfRange => EditRefused("Invalid cell index", edit.coordinate[2])

\* a cell index beyond the cells of the row has been refused
CellIndexRefused ==
  /\ CellOutOfRange
  /\ edit.coordinate[2] >= Len(CellsBefore)
  /\ EditRefused("Invalid cell index", edit.coordinate[2])
  /\ editError = <<"Failed to update cell", Error("Invalid cell index", edit.coordinate[2])>>

\* the documents before and after the last edit, parsed
ParsedBefore == parseDocumentContent(prevContent)
ParsedAfter == parseDocumentContent(documentContent)

\* the cell the last edit was aimed at
IsTarget(s, r, c) ==
  s = edit.sectionIndex + 1 /\ r = edit.coordinate[1] + 1 /\ c = edit.coordinate[2] + 1

SameRowsOutside(before, after, s) ==
  /\ Len(after) = Len(before)
  /\ \A r \in 1..Len(before) :
       /\ after[r].rowIndex = before[r].rowIndex
       /\ Len(after[r].cells) = Len(before[r].cells)
       /\ \A c \in 1..Len(before[r].cells) :
            IsTarget(s, r, c) \/ after[r].cells[c] = before[r].cells[c]

SameOutsideTarget(before, after) ==
  /\ Len(after.sections) = Len(before.sections)
  /\ \A s \in 1..Len(before.sections) :
       /\ after.sections[s].title = before.sections[s].title
       /\ after.sections[s].tableIndex = before.sections[s].tableIndex
       /\ SameRowsOutside(before.sections[s].rows, after.sections[s].rows, s)
  /\ after.textualContent = before.textualContent

TargetCell(parsed) ==
  parsed.sections[edit.sectionIndex + 1].rows[edit.coordinate[1] + 1].cells[edit.coordinate[2] + 1]

CellUpdateInRange ==
  Edits({"updateDocumentCell"}) /\ SectionInRange /\ RowInRange /\ CellInRange

\* C20: updateDocumentCell with coordinates in range changes exactly the cell
\* that parseDocumentContent reports at them: the result parsed again has the
\* new content at the coordinates, and every other cell, row, section title
\* and text block as before.
CellUpdateExact ==
  CellUpdateInRange =>
    /\ edit.ok
    /\ SameOutsideTarget(ParsedBefore, ParsedAfter)
    /\ TargetCell(ParsedAfter).content = edit.newContent

\* the rows of the section the last edit was aimed at, before and after it
RowsAfter == ParsedAfter.sections[edit.sectionIndex + 1].rows
CellsOfRows(rows) == [r \in 1..Len(rows) |-> rows[r].cells]

\* the cells of a new row with these contents, as they are parsed
NewCell(content) ==
  [content |-> Serialize(ParseFragment(content), 1),
   textContent |-> Trim(TextOfKids(ParseFragment(content), 1)),
   isHeader |-> FALSE, colSpan |-> 1, rowSpan |-> 1]
NewCells(contents) == [k \in 1..Len(contents) |-> NewCell(contents[k])]

\* where a row added at a position is among the rows: 0 is the top, -1 and
\* every position from the number of rows on is the bottom
PlaceOf(position, rows) ==
  IF position = -1 \/ position >= Len(rows) THEN Len(rows) + 1 ELSE position + 1

RowAddInRange == Edits({"addDocumentRow"}) /\ SectionInRange

\* C21: addDocumentRow on a valid section succeeds for the positions 0 (top),
\* -1 (bottom) and an index inside the table, and the result parsed again has
\* the new row with the supplied cells at that position, the previous rows of
\* the section all there in their order.
RowAddedAtPosition ==
  RowAddInRange =>
    /\ edit.ok
    /\ Len(ParsedAfter.sections) > edit.sectionIndex
    /\ CellsOfRows(RowsAfter)
         = InsertedAt(CellsOfRows(RowsBefore), PlaceOf(edit.coordinate[1], RowsBefore),
                      NewCells(edit.newContent))

RowRemoveInRange == Edits({"removeDocumentRow"}) /\ SectionInRange /\ RowInRange

SameSection(before, after) ==
  /\ after.title = before.title
  /\ after.tableIndex = before.tableIndex
  /\ CellsOfRows(after.rows) = CellsOfRows(before.rows)

\* C26: removeDocumentRow with a section and a row index in range removes
\* exactly the row reported there: the result parsed again has that section
\* with one row fewer, its other rows as before and in their order, and every
\* other section as before at its index.
RowRemovedExact ==
  RowRemoveInRange =>
    /\ edit.ok
    /\ Len(ParsedAfter.sections) = Len(ParsedBefore.sections)
    /\ CellsOfRows(RowsAfter) = Without(CellsOfRows(RowsBefore), edit.coordinate[1] + 1)
    /\ \A s \in 1..Len(ParsedBefore.sections) :
         s = edit.sectionIndex + 1 \/ SameSection(ParsedBefore.sections[s], ParsedAfter.sections[s])

\* the totalSteps of the metrics merged: those of absent metrics are 0
TotalStepsOf(m) == IF m = None THEN 0 ELSE m.totalSteps
CountsEntries(m) == TotalStepsOf(m) >= Len(StepsOf(m))

\* C29 as stated: merged metrics have a totalSteps that is at least the number
\* of entries of their stepTimes, for every pair of inputs
TotalStepsCoverList ==
  IsMerged(processMetrics) => processMetrics.totalSteps >= Len(processMetrics.stepTimes)

\* C29: merged metrics have the larger of the totalSteps of the two inputs
\* as their totalSteps, which is less than the number of entries of their
\* stepTimes when the inputs have step keys the other has not.
TotalStepsIsLarger ==
  IsMerged(processMetrics) =>
    /\ processMetrics.totalSteps \in {TotalStepsOf(workflowMetrics), TotalStepsOf(documentMetrics)}
    /\ processMetrics.totalSteps >= TotalStepsOf(workflowMetrics)
    /\ processMetrics.totalSteps >= TotalStepsOf(documentMetrics)

\* inputs that each count their entries, merged to a list longer than the count
MergedListLonger ==
  /\ IsMerged(processMetrics)
  /\ CountsEntries(workflowMetrics) /\ CountsEntries(documentMetrics)
  /\ Len(StepsOf(workflowMetrics)) > 0 /\ Len(StepsOf(documentMetrics)) > 0
  /\ processMetrics.totalSteps < Len(processMetrics.stepTimes)

\* C30: no workflow edit is lost: when a regeneration that was in flight
\* completes, the results hold the workflow diagram they held before, which
\* is the one of the last edit made while the request was in flight; the
\* handler writes to the latest results, not to those it started with.
WorkflowEditKept ==
  [][(regeneration # None /\ regeneration' = None) => workflowDiagram' = workflowDiagram]_vars

(***************************************************************************)
(* The diagram engine, continued                                           *)
(***************************************************************************)
\* the call was to set the time estimate of a node that has a line of its own
TimedExplicit ==
  /\ call.op = "updateNodeTimeEstimate"
  /\ call.nodeId \in DOMAIN NodesOf(prevCode)
  /\ NodesOf(prevCode)[call.nodeId].line # NoLine

\* C22: updateNodeTimeEstimate on an explicit node fails, or returns a source
\* that parses to that node with the new time estimate and with the label it
\* had: a time in parentheses is replaced and a missing one is appended,
\* whatever the kind of the node and the spacing of its declaration.
TimeEstimateSet ==
  TimedExplicit /\ call.ok =>
    /\ call.nodeId \in DOMAIN NodesOf(diagramCode)
    /\ NodesOf(diagramCode)[call.nodeId].timeEstimate = call.arg
    /\ NodesOf(diagramCode)[call.nodeId].label = NodesOf(prevCode)[call.nodeId].label

\* the seven mutators of the diagram engine
Mutators ==
  { "updateNodeTimeEstimate", "updateNodeLabel", "updateConnectionLabel",
    "addNode", "removeNode", "addConnection", "removeConnection" }
Mutated == call.op \in Mutators /\ call.ok

\* the number of groups open after line k, counting from the top: an opener
\* opens one, a closer closes the innermost open one
RECURSIVE DepthAfter(_, _)
DepthAfter(lines, k) ==
  IF k = 0 THEN 0
  ELSE LET depth == DepthAfter(lines, k - 1)
       IN IF IsOpener(lines[k]) THEN depth + 1
          ELSE IF IsCloser(lines[k]) /\ depth > 0 THEN depth - 1
          ELSE depth
Unclosed(code) == DepthAfter(Split(code), Len(Split(code)))

\* C23: every source a mutator returns, whatever the calls before it, has no
\* unclosed group: the depth counted from top to bottom is zero at its end
MutatorsCloseGroups == Mutated => Unclosed(diagramCode) = 0
\* a mutator was handed a source with an open group
MutatedUnclosed == Mutated /\ Unclosed(prevCode) > 0

\* /\bend\b/: the bare keyword somewhere in a line
EndWord == <<WordB, Lit(KwEnd), WordB>>
UsesEnd(line) == Test(line, EndWord)

\* C24: in every source the validator returns, the bare keyword `end` appears
\* only in group closer lines: as a node id it has been rewritten
EndOnlyCloses ==
  Did("validate") =>
    \A k \in 1..Len(Split(diagramCode)) :
      UsesEnd(Split(diagramCode)[k]) => IsCloser(Split(diagramCode)[k])

\* the opener lines of the groups open after line k, outermost first
RECURSIVE OpenAfter(_, _)
OpenAfter(lines, k) ==
  IF k = 0 THEN <<>>
  ELSE LET open == OpenAfter(lines, k - 1)
       IN IF IsOpener(lines[k]) THEN Append(open, k)
          ELSE IF IsCloser(lines[k]) /\ open # <<>> THEN SubSeq(open, 1, Len(open) - 1)
          ELSE open
\* the line that closes the group opened on line k
CloserOf(lines, k) ==
  FirstFrom(k + 1, Len(lines),
            LAMBDA c : Len(OpenAfter(lines, c)) < Len(OpenAfter(lines, k)))
Nested(code) == \E k \in 1..Len(Split(code)) : Len(OpenAfter(Split(code), k)) >= 2
GroupTitle(line) == TitleOf(Trim(line), Exec(Trim(line), SubgraphTitlePattern, 1))
GroupTitles(lines, open) == [g \in 1..Len(open) |-> GroupTitle(lines[open[g]])]
\* the parser has a group with this span, and with these members if any
Recorded(subgraphs, startLine, endLine, members) ==
  \E g \in 1..Len(subgraphs) :
    /\ subgraphs[g].startLine = startLine
    /\ subgraphs[g].endLine = endLine
    /\ \A nodeId \in members : \E x \in 1..Len(subgraphs[g].nodes) : subgraphs[g].nodes[x] = nodeId

GroupsParsed(lines, parsed) ==
  /\ \A k \in 1..Len(lines) :
       IsOpener(lines[k]) => Recorded(parsed.subgraphs, k, CloserOf(lines, k), {})
  /\ \A nodeId \in DOMAIN parsed.nodes :
       LET node == parsed.nodes[nodeId]
           open == OpenAfter(lines, node.line)
       IN node.line # NoLine =>
            /\ node.subgraphs = GroupTitles(lines, open)
            /\ \A g \in 1..Len(open) :
                 Recorded(parsed.subgraphs, open[g], CloserOf(lines, open[g]), {nodeId})

\* C25: of a source with a group nested in another the parser records both
\* groups with their line spans, and a node declared in the inner group lists
\* both titles, outermost first, and is a member of both groups
NestedGroupsParsed ==
  Nested(diagramCode) /\ Unclosed(diagramCode) = 0 =>
    GroupsParsed(Split(diagramCode), parseMermaidDiagram(diagramCode))

\* the canonical line forms: id["text"], id{"text"}, id(["text"]), a --> b and
\* a -->|"label"| b
Canonical(open, close) ==
  <<Bos, Plus(WordChars), Lit(open \o <<QUOTE>>), PlusNot({QUOTE}),
    Lit(<<QUOTE>> \o close), Eos>>
CanonicalDefinitions ==
  { Canonical(<<"[">>, <<"]">>), Canonical(<<"{">>, <<"}">>),
    Canonical(<<"(", "[">>, <<"]", ")">>) }
CanonicalEdge ==
  <<Bos, Plus(WordChars), Lit(<<" ">> \o Arrow \o <<" ">>), Plus(WordChars), Eos>>
CanonicalLabeledEdge ==
  <<Bos, Plus(WordChars), Lit(<<" ">> \o Arrow \o <<"|", QUOTE>>), PlusNot({QUOTE}),
    Lit(<<QUOTE, "|", " ">>), Plus(WordChars), Eos>>
\* the ids a line declares (none or one) and the ids it connects
DeclaredIn(line) ==
  { Group(line, Match(line, 1, pat), 2, 2) :
      pat \in { p \in CanonicalDefinitions : Match(line, 1, p) # <<>> } }
ConnectedIn(line) ==
  IF Match(line, 1, CanonicalEdge) # <<>>
  THEN { Group(line, Match(line, 1, CanonicalEdge), 2, 2),
         Group(line, Match(line, 1, CanonicalEdge), 4, 4) }
  ELSE IF Match(line, 1, CanonicalLabeledEdge) # <<>>
  THEN { Group(line, Match(line, 1, CanonicalLabeledEdge), 2, 2),
         Group(line, Match(line, 1, CanonicalLabeledEdge), 6, 6) }
  ELSE {}
IsGroupLine(line) == StartsWith(line, KwSubgraphSp) \/ line = KwEnd

\* a well-formed source: the direction directive first, then group lines,
\* canonical declarations and canonical edges only; the groups balanced, each
\* id declared once and no other id connected
WellFormedLines(lines) ==
  /\ Len(lines) >= 1 /\ lines[1] = GraphTD
  /\ BalancedLines(lines)
  /\ \A k \in 2..Len(lines) :
       \/ IsGroupLine(Trim(lines[k]))
       \/ DeclaredIn(Trim(lines[k])) # {}
       \/ ConnectedIn(Trim(lines[k])) # {}
  /\ \A j, k \in 2..Len(lines) :
       DeclaredIn(Trim(lines[j])) \cap DeclaredIn(Trim(lines[k])) # {} => j = k
  /\ \A k \in 2..Len(lines) : \A nodeId \in ConnectedIn(Trim(lines[k])) :
       /\ nodeId # KwEnd
       /\ \E j \in 2..Len(lines) : nodeId \in DeclaredIn(Trim(lines[j]))
WellFormed(code) == code # <<>> /\ WellFormedLines(Split(code))

SameParse(before, after) ==
  /\ DOMAIN after.nodes = DOMAIN before.nodes
  /\ \A nodeId \in DOMAIN before.nodes :
       /\ after.nodes[nodeId].label = before.nodes[nodeId].label
       /\ after.nodes[nodeId].type = before.nodes[nodeId].type
       /\ after.nodes[nodeId].timeEstimate = before.nodes[nodeId].timeEstimate
       /\ after.nodes[nodeId].isImplicit = before.nodes[nodeId].isImplicit
  /\ after.connections = before.connections
  /\ after.subgraphs = before.subgraphs

ValidatedWellFormed == Did("validate") /\ WellFormed(prevCode)

\* C27: the validator does not change what the parser sees in a well-formed
\* source: the nodes with their labels, kinds and time estimates, the
\* connections and the groups are the same before and after
ValidatePreservesParse ==
  ValidatedWellFormed =>
    SameParse(parseMermaidDiagram(prevCode), parseMermaidDiagram(diagramCode))

\* C28: when the parser reports a connection from->to in a source,
\* removeConnection returns a source in which it reports none
ReportedConnectionRemoved ==
  Did("removeConnection") /\ HasConnection(prevCode, call.from, call.to) =>
    ~HasConnection(diagramCode, call.from, call.to)
====
